---- MODULE Spec2Model ----
(***************************************************************************)
(* Verification model of the satellite audio front-end:                    *)
(*   - SpeechEngine (satellites/speech/speech_engine.py): the frame loop,   *)
(*     the built-in RMS wake gate, the pre-roll buffer and the             *)
(*     wake/utterance state machine;                                       *)
(*   - ReSpeakerGate (satellites/speech/respeaker_xvf3800.py): the RMS     *)
(*     hold gate, the hardware energy poll loop and the mode dispatch of   *)
(*     is_open.                                                            *)
(*   - AudioInput / ArecordInput (satellites/speech/audio.py): the frame   *)
(*     queue between the capture producer and frames(), start and stop;    *)
(*   - SatelliteConfig (satellites/utils/config.py): from_dict, validate.  *)
(* Spec is the engine consuming frames; FaultSpec is the same engine with  *)
(* callbacks and a state listener that may raise; GateSpec is a            *)
(* ReSpeakerGate with its poll thread and a consumer calling is_open;      *)
(* AudioSpec is the frame queue under its producer and consumer;           *)
(* SourceSpec is the life cycle of a source and a gate: device failure,    *)
(* stop() from two threads, the finally block of start(); SourceLive adds  *)
(* the scheduling of the consumer thread; GateLive the scheduling of the   *)
(* poll thread; LoadSpec applies the constructors and the configuration    *)
(* loader to the values a deployment supplies; LockSpec is the gate with   *)
(* its two threads statement by statement around self._lock; EntrySpec is *)
(* the engine as an entry point (satellites/main.py,                       *)
(* satellites/scripts/lva_satellite_frontend.py) builds it from a loaded   *)
(* configuration.                                                          *)
(***************************************************************************)
EXTENDS Integers, Sequences, FiniteSets, TLC

\* ---------------------------------------------------------------- bounds
MaxFrames == 5          \* frames delivered to the engine in one run
MaxTime == 3            \* clock ticks observed by the engine in one run
MaxSegments == 2        \* ready segments the VAD queues before extraction
MaxGateFrames == 4      \* frames evaluated by a ReSpeakerGate in one run
MaxHits == 3            \* cap on a consecutive-poll counter
MaxCaptured == 52       \* frames captured by the device in one run
MaxBacklog == 2         \* frames captured in a run that exercises stop()
MaxStops == 2           \* stop() / close() calls made from outside the engine

\* ------------------------------------------------------- input domains
SampleRates == {100}                 \* samples per second (frame_n = 2)
PrerollMs == {0, 25, 50, 75}         \* wake_preroll_ms (cap 0, 2, 5, 7 samples)
RawFrameLens == {1, 3}               \* samples in a dequeued frame
RmsLevels == {1, 2}                  \* frame RMS (always > 0: sqrt(mean + 1e-12))
RmsThresholds == {0, 2}              \* wake_rms_gate, rms_threshold (0 disables)
HoldFrames == {0, 1, 2}              \* wake_gate_hold_frames
GateHoldFrames == {0, 2}             \* rms_hold_frames
MaxUtteranceS == {1, 2}              \* max_utterance_s, in clock ticks
VadOutcomes == {"silence", "speech", "segment"}
ThresholdPairs == {<<4, 2>>, <<1, 0>>}  \* speech_energy_high, speech_energy_low
OpenPolls == {1, 2}                  \* open_consecutive_polls
ClosePolls == {2, 3}                 \* close_consecutive_polls

None == <<>>
Some(x) == <<x>>

VARIABLES
  cfg,                    \* constructor arguments of the engine
  pc,                     \* position of SpeechEngine.start
  state,                  \* _state
  wake_preroll_frames,    \* _wake_preroll_frames
  wake_preroll_samples,   \* _wake_preroll_samples
  wake_gate_open_frames,  \* _wake_gate_open_frames
  last_gate_open,         \* _last_gate_open (None, Some(TRUE), Some(FALSE))
  gate_just_opened,       \* _gate_just_opened
  utt_buf,                \* _utt_buf
  utt_start_t,            \* _utt_start_t
  vad,                    \* SherpaVAD state
  now,                    \* time.time()
  nframes,                \* frames dequeued so far
  ev,                     \* what the last step of the engine did (observer)
  wakes,                  \* on_wake callbacks delivered (observer)
  utts,                   \* on_utterance_ended callbacks delivered (observer)
  since_wake,             \* utterances / timeout signals since the last wake (observer)
  decoded,                \* the latest frame passed to wakeword.process (observer)
  sigform                 \* how far the state signals emitted so far match
                          \* the form of a run (observer)

VARIABLES
  gcfg,                   \* constructor arguments of the ReSpeakerGate
  gate,                   \* fields of the ReSpeakerGate
  pollpc,                 \* position of the poll thread
  ngframes,               \* frames evaluated by the gate so far
  geval,                  \* the last is_open evaluation (observer)
  gpoll,                  \* the last hardware read (observer)
  ref_gate,               \* a reference gate in rms mode fed the same frames
  since_loud,             \* quiet frames since the last loud one (observer)
  ever_read,              \* a hardware read has succeeded (observer)
  hi_run,                 \* consecutive successful reads >= high (observer)
  lo_run                  \* consecutive successful reads <= low (observer)

gateVars == <<gcfg, gate, pollpc, ngframes, geval, gpoll, ref_gate,
              since_loud, ever_read, hi_run, lo_run>>

VARIABLES
  acfg,                   \* which AudioSource backend is constructed
  source,                 \* _running, _stream / _proc, and the device behind it
  frame_q,                \* _q, oldest frame first
  ppc,                    \* position of the capture producer
  pnew,                   \* the frame the producer is enqueueing (0: none)
  ncaptured,              \* frames captured so far
  cpc,                    \* position of the consumer (SpeechEngine.start)
  xstops,                 \* stop() calls made by another thread
  stopcall,               \* the stop() call each thread is in
  shutdown,               \* what the finally block of start() has done
  emitted,                \* the state signals of this run of start()
  yielded,                \* the frames frames() has yielded, in order (observer)
  dropped,                \* the frames the producer removed on overflow (observer)
  afault,                 \* the device failed while capturing (observer)
  aput,                   \* the last step of the producer (observer)
  astop,                  \* the last stop() call on the source (observer)
  gclose                  \* the last close() call on the gate (observer)

audioVars == <<acfg, source, frame_q, ppc, pnew, ncaptured, cpc, xstops,
               stopcall, shutdown, emitted, yielded, dropped, afault, aput,
               astop, gclose>>

VARIABLES
  settings,               \* the values a deployment supplies (file, arguments)
  built                   \* what each constructor made of them (observer)

loadVars == <<settings, built>>

VARIABLES
  lock,                   \* the thread inside `with self._lock` ("free": none)
  ppos,                   \* position of the poll thread, statement by statement
  cpos,                   \* position of the consumer in is_open / metrics
  plocal,                 \* the poll thread's local energy
  clocal,                 \* the consumer's locals (rms_open, xvf_open, ...)
  touched                 \* the fields of the gate the last step read or wrote,
                          \* with whether the thread held the lock (observer)

lockVars == <<lock, ppos, cpos, plocal, clocal, touched>>

engineVars == <<cfg, pc, state, wake_preroll_frames, wake_preroll_samples,
                wake_gate_open_frames, last_gate_open, gate_just_opened,
                utt_buf, utt_start_t, vad, now, nframes, ev, wakes, utts,
                since_wake, decoded, sigform>>

\* ------------------------------------------------------ SpeechEngine.__init__
EngineConfigs ==
  { c \in [gate : {"none", "injected"},
           sample_rate : SampleRates,
           wake_rms_gate : RmsThresholds,
           wake_gate_hold_frames : HoldFrames,
           wake_preroll_enabled : BOOLEAN,
           wake_preroll_ms : PrerollMs,
           max_utterance_s : MaxUtteranceS] :
      \* arguments that the chosen configuration never reads are fixed
      /\ (c.gate = "injected" => c.wake_rms_gate = 2 /\ c.wake_gate_hold_frames = 0)
      /\ (~c.wake_preroll_enabled => c.wake_preroll_ms = 0) }

wake_preroll_max_samples == (cfg.sample_rate * cfg.wake_preroll_ms) \div 1000

frame_n == (cfg.sample_rate * 2) \div 100

NoEvent ==
  [kind |-> "none", state0 |-> "LISTEN_WAKEWORD", gate |-> "na",
   just_opened |-> FALSE, replay |-> FALSE, frame |-> 0,
   process |-> <<>>, detected |-> <<>>, wake_resets |-> 0, clears |-> 0,
   on_wake |-> 0, accept |-> <<>>, appended |-> <<>>,
   vad_ready |-> FALSE, timed_out |-> FALSE, flush |-> None,
   utterances |-> <<>>, signals |-> <<>>,
   \* exc: the exception that left the frame loop; raised: calls of the
   \* listener that raised; shutdown: what the finally block did; quiet: the
   \* step did what it does when the listener never raises
   exc |-> "none", raised |-> 0, shutdown |-> <<>>, quiet |-> TRUE]

VadInit == [speech_captured |-> FALSE, queued |-> 0, partial |-> FALSE]

\* the fields of an engine after __init__
EngineConstructed ==
  /\ pc = "init"
  /\ state = "LISTEN_WAKEWORD"
  /\ wake_preroll_frames = <<>>
  /\ wake_preroll_samples = 0
  /\ wake_gate_open_frames = 0
  /\ last_gate_open = None
  /\ gate_just_opened = FALSE
  /\ utt_buf = <<>>
  /\ utt_start_t = 0
  /\ vad = VadInit
  /\ now = 0
  /\ nframes = 0
  /\ ev = NoEvent
  /\ sigform = "none"
  /\ wakes = 0
  /\ utts = 0
  /\ since_wake = [utterances |-> 0, timeouts |-> 0]
  /\ decoded = 0

EngineInit == cfg \in EngineConfigs /\ EngineConstructed

\* ------------------------------------------------------------- SherpaVAD
VadReset(v) == VadInit

VadClear(v) == [v EXCEPT !.queued = 0, !.speech_captured = FALSE]

\* accept_audio: the segmenter may stay silent, enter speech, or close a segment
VadAccept(v, outcome) ==
  LET q == IF outcome = "segment" /\ v.queued < MaxSegments
             THEN v.queued + 1 ELSE v.queued
      p == IF outcome = "speech" THEN TRUE
           ELSE IF outcome = "segment" THEN FALSE ELSE v.partial
  IN [speech_captured |-> q > 0, queued |-> q, partial |-> p]

\* get_samples: an optional flush closes the segment in progress, then every
\* ready segment is popped; chunks is the number of segments returned
VadGetSamples(v, flush) ==
  LET q == IF flush /\ v.partial THEN v.queued + 1 ELSE v.queued
  IN [vad |-> [v EXCEPT !.queued = 0,
                        !.partial = IF flush THEN FALSE ELSE v.partial],
      chunks |-> q]

\* ------------------------------------------------------- engine helpers
Pad(len) == IF len < frame_n THEN frame_n ELSE len

RmsGateIsOpen(hold, rms) ==
  IF cfg.wake_rms_gate <= 0 THEN [open |-> TRUE, hold |-> hold]
  ELSE IF rms >= cfg.wake_rms_gate
    THEN [open |-> TRUE, hold |-> cfg.wake_gate_hold_frames]
  ELSE IF hold > 0 THEN [open |-> TRUE, hold |-> hold - 1]
  ELSE [open |-> FALSE, hold |-> hold]

\* _gate_is_open: b is the answer of an injected gate's is_open
GateIsOpen(rms, b) ==
  LET g == IF cfg.gate = "injected"
             THEN [open |-> b, hold |-> wake_gate_open_frames]
             ELSE RmsGateIsOpen(wake_gate_open_frames, rms)
      changed == last_gate_open = None \/ last_gate_open # Some(g.open)
  IN [open |-> g.open, hold |-> g.hold,
      just_opened |-> changed /\ g.open,
      last |-> IF changed THEN Some(g.open) ELSE last_gate_open]

\* eviction written as a single "if" instead of the "while"
EvictOnce(frames, samples, max) ==
  IF samples > max /\ frames # <<>>
    THEN [frames |-> Tail(frames), samples |-> samples - Head(frames).len]
    ELSE [frames |-> frames, samples |-> samples]

RECURSIVE Evict(_, _, _)
Evict(frames, samples, max) ==
  IF samples > max /\ frames # <<>>
    THEN Evict(Tail(frames), samples - Head(frames).len, max)
    ELSE [frames |-> frames, samples |-> samples]

AppendPreroll(frames, samples, f) ==
  IF wake_preroll_max_samples <= 0
    THEN [frames |-> frames, samples |-> samples]
    ELSE Evict(Append(frames, f), samples + f.len, wake_preroll_max_samples)

Ids(frames) == [i \in 1..Len(frames) |-> frames[i].id]

\* What the callbacks do in one step of the engine: callback is on_wake /
\* on_utterance_ended raising, listener the calls of the state listener
\* (first, second of the step) that raise.
Faults == [callback : BOOLEAN, listener : SUBSET {1, 2}]

NoFaults == [callback |-> FALSE, listener |-> {}]

\* The part of the engine that listen_wakeword and capture_utterance act on,
\* with what they did to the collaborators (process .. signals) and the
\* exception on its way out of start() (exc).
Machine ==
  [state |-> state, utt_buf |-> utt_buf, utt_start_t |-> utt_start_t,
   vad |-> vad,
   process |-> <<>>, detected |-> <<>>, wake_resets |-> 0, clears |-> 0,
   on_wake |-> 0, accept |-> <<>>, appended |-> <<>>,
   flush |-> None, utterances |-> <<>>, signals |-> <<>>,
   faults |-> NoFaults, exc |-> "none", raised |-> 0, shutdown |-> <<>>]

\* ------------------------------------------------ SpeechEngine._emit_state
\* _emit_state without the try / except around the listener
EmitStateUncaught(m, s) ==
  IF m.exc # "none" THEN m
  ELSE IF Len(m.signals) + 1 \in m.faults.listener
    THEN [m EXCEPT !.signals = Append(@, s), !.raised = @ + 1,
                   !.exc = "listener"]
  ELSE [m EXCEPT !.signals = Append(@, s)]

\* the listener is called with s; if it raises, the exception is logged.
\* Nothing runs once an exception is on its way out (m.exc).
EmitState(m, s) ==
  IF m.exc # "none" THEN m
  ELSE IF Len(m.signals) + 1 \in m.faults.listener
    THEN [m EXCEPT !.signals = Append(@, s), !.raised = @ + 1]
  ELSE [m EXCEPT !.signals = Append(@, s)]

\* ------------------------------------- SpeechEngine.start: finally block
\* audio_in.stop(), gate.close() if there is a gate, _emit_state("idle");
\* an exception that left the frame loop then goes on to the caller
Finally(m) ==
  LET r == EmitState([m EXCEPT !.exc = "none",
                               !.shutdown = <<"audio_stop">>
                                  \o (IF cfg.gate = "injected"
                                        THEN <<"gate_close">> ELSE <<>>)],
                     "idle")
  IN [r EXCEPT !.shutdown = IF r.exc = "none" THEN Append(@, "emit_idle")
                            ELSE @,
               !.exc = IF r.exc # "none" THEN r.exc ELSE m.exc]

\* m without what the listener's own misbehaviour is
Observable(m) == [m EXCEPT !.faults = NoFaults, !.raised = 0]

Event(kind, m, quiet) ==
  [NoEvent EXCEPT !.kind = kind, !.signals = m.signals, !.exc = m.exc,
                  !.raised = m.raised, !.shutdown = m.shutdown,
                  !.quiet = Observable(m) = Observable(quiet)]

\* the form of the signals of one run:
\*   idle (wake_detected capturing_utterance
\*         (utterance_complete | utterance_timeout) idle)*
\*        [wake_detected capturing_utterance] idle
SignalStep(form, s) ==
  IF form = "none" /\ s = "idle" THEN "idle"
  ELSE IF form = "idle" /\ s = "wake_detected" THEN "wake"
  ELSE IF form = "wake" /\ s = "capturing_utterance" THEN "capturing"
  ELSE IF form = "capturing" /\ s \in {"utterance_complete", "utterance_timeout"}
    THEN "ended"
  ELSE IF form = "ended" /\ s = "idle" THEN "idle"
  ELSE IF form \in {"idle", "capturing"} /\ s = "idle" THEN "final"
  ELSE "bad"

RECURSIVE SignalForm(_, _)
SignalForm(form, signals) ==
  IF signals = <<>> THEN form
  ELSE SignalForm(SignalStep(form, Head(signals)), Tail(signals))

\* ------------------------------------------------- SpeechEngine.start
\* audio_in.start(), _state = LISTEN_WAKEWORD, _emit_state("idle")
EngineStart(fl) ==
  /\ pc = "init"
  /\ LET start(f) == EmitState([Machine EXCEPT !.faults = f,
                                               !.state = "LISTEN_WAKEWORD"],
                               "idle")
         m == start(fl)
     IN /\ pc' = IF m.exc # "none" THEN "failed" ELSE "running"
        /\ state' = m.state
        /\ ev' = Event("start", m, start([fl EXCEPT !.listener = {}]))
        /\ sigform' = SignalForm(sigform, m.signals)
  /\ UNCHANGED <<cfg, wake_preroll_frames, wake_preroll_samples,
                 wake_gate_open_frames, last_gate_open, gate_just_opened,
                 utt_buf, utt_start_t, vad, now, nframes, wakes, utts,
                 since_wake, decoded>>

\* ------------------------------------------- SpeechEngine.listen_wakeword
\* evt: wakeword.process(frame) returned an event; process itself resets
\* the detector's stream after an event (wake_resets), the engine never does
ListenWakeword(m, f, evt, t) ==
  IF evt
    THEN LET called == [m EXCEPT !.process = Append(@, f.id),
                                 !.detected = Append(@, f.id),
                                 !.wake_resets = @ + 1,
                                 !.on_wake = @ + 1,
                                 !.exc = IF m.faults.callback THEN "on_wake"
                                         ELSE @]
             armed == IF called.exc # "none" THEN called
                      ELSE [called EXCEPT !.vad = VadReset(@),
                                          !.utt_buf = <<f>>,
                                          !.state = "CAPTURE_UTTERANCE",
                                          !.utt_start_t = t]
         IN EmitState(EmitState(armed, "wake_detected"), "capturing_utterance")
    ELSE [m EXCEPT !.process = Append(@, f.id),
                   !.vad = VadClear(@),
                   !.clears = @ + 1]

\* replay that does not stop at the first event
RECURSIVE ReplayAll(_, _, _, _, _)
ReplayAll(m, frames, i, dets, t) ==
  IF i > Len(frames) THEN m
  ELSE ReplayAll(ListenWakeword(m, frames[i], i \in dets, t), frames, i + 1, dets, t)

\* ------------------------------ SpeechEngine._replay_preroll_for_wakeword
\* dets: the positions at which process returns an event if it is called
RECURSIVE ReplayPreroll(_, _, _, _, _)
ReplayPreroll(m, frames, i, dets, t) ==
  IF i > Len(frames) THEN m
  ELSE IF i \in dets THEN ListenWakeword(m, frames[i], TRUE, t)
  ELSE ReplayPreroll(ListenWakeword(m, frames[i], FALSE, t), frames, i + 1, dets, t)

\* the LISTEN_WAKEWORD case without the test of the gate
WakewordStepUngated(m, open, just_opened, frames, f, dets, t) ==
  IF cfg.wake_preroll_enabled /\ just_opened
    THEN ReplayPreroll(m, frames, 1, dets, t)
    ELSE ListenWakeword(m, f, 1 \in dets, t)

\* a replay that found nothing goes on to decode the current frame
WakewordStepReprocess(m, open, just_opened, frames, f, dets, t) ==
  IF open
    THEN IF cfg.wake_preroll_enabled /\ just_opened
           THEN LET r == ReplayPreroll(m, frames, 1, dets, t)
                IN IF r.detected = <<>> THEN ListenWakeword(r, f, FALSE, t)
                   ELSE r
           ELSE ListenWakeword(m, f, 1 \in dets, t)
    ELSE m

\* the gate branch of the LISTEN_WAKEWORD case
WakewordStep(m, open, just_opened, frames, f, dets, t) ==
  IF open
    THEN IF cfg.wake_preroll_enabled /\ just_opened
           THEN ReplayPreroll(m, frames, 1, dets, t)
           ELSE ListenWakeword(m, f, 1 \in dets, t)
    ELSE m

\* finalization that leaves the engine in CAPTURE_UTTERANCE
CaptureUtteranceStays(m, t) ==
  LET timeout == t - m.utt_start_t >= cfg.max_utterance_s
  IN IF m.vad.speech_captured \/ timeout
       THEN [m EXCEPT !.flush = Some(TRUE),
                      !.utterances = Append(@,
                         [reason |-> IF m.vad.speech_captured THEN "vad" ELSE "timeout",
                          audio |-> [source |-> "utt_buf", chunks |-> 0,
                                     frames |-> Ids(m.utt_buf)]]),
                      !.vad = VadReset(m.vad),
                      !.utt_buf = <<>>,
                      !.signals = @ \o <<IF timeout THEN "utterance_timeout"
                                                    ELSE "utterance_complete",
                                         "idle">>]
       ELSE m

\* finalization that tests the timeout before the VAD
CaptureUtteranceTimeoutFirst(m, t) ==
  LET timeout == t - m.utt_start_t >= cfg.max_utterance_s
  IN IF m.vad.speech_captured \/ timeout
       THEN [m EXCEPT !.flush = Some(TRUE),
                      !.utterances = Append(@,
                         [reason |-> IF timeout THEN "timeout" ELSE "vad",
                          audio |-> [source |-> "utt_buf", chunks |-> 0,
                                     frames |-> Ids(m.utt_buf)]]),
                      !.vad = VadReset(m.vad),
                      !.utt_buf = <<>>,
                      !.state = "LISTEN_WAKEWORD",
                      !.signals = @ \o <<IF timeout THEN "utterance_timeout"
                                                    ELSE "utterance_complete",
                                         "idle">>]
       ELSE m

\* finalization without the fallback to the raw buffer
CaptureUtteranceNoFallback(m, t) ==
  LET timeout == t - m.utt_start_t >= cfg.max_utterance_s
  IN IF m.vad.speech_captured \/ timeout
       THEN LET reason == IF m.vad.speech_captured THEN "vad" ELSE "timeout"
                got == VadGetSamples(m.vad, TRUE)
                audio == IF got.chunks > 0
                           THEN [source |-> "vad", chunks |-> got.chunks,
                                 frames |-> <<>>]
                         ELSE [source |-> "empty", chunks |-> 0, frames |-> <<>>]
                called == [m EXCEPT !.flush = Some(TRUE),
                                    !.vad = got.vad,
                                    !.utterances = Append(@, [reason |-> reason,
                                                              audio |-> audio]),
                                    !.exc = IF m.faults.callback
                                              THEN "on_utterance" ELSE @]
                ended == IF called.exc # "none" THEN called
                         ELSE [called EXCEPT !.vad = VadReset(@),
                                             !.utt_buf = <<>>,
                                             !.state = "LISTEN_WAKEWORD"]
            IN EmitState(EmitState(ended, IF timeout THEN "utterance_timeout"
                                          ELSE "utterance_complete"),
                         "idle")
       ELSE m

\* ----------------------------------------- SpeechEngine.capture_utterance
CaptureUtterance(m, t) ==
  LET timeout == t - m.utt_start_t >= cfg.max_utterance_s
  IN IF m.vad.speech_captured \/ timeout
       THEN LET reason == IF m.vad.speech_captured THEN "vad" ELSE "timeout"
                got == VadGetSamples(m.vad, TRUE)
                audio == IF got.chunks > 0
                           THEN [source |-> "vad", chunks |-> got.chunks,
                                 frames |-> <<>>]
                         ELSE IF m.utt_buf # <<>>
                           THEN [source |-> "utt_buf", chunks |-> 0,
                                 frames |-> Ids(m.utt_buf)]
                         ELSE [source |-> "empty", chunks |-> 0, frames |-> <<>>]
                called == [m EXCEPT !.flush = Some(TRUE),
                                    !.vad = got.vad,
                                    !.utterances = Append(@, [reason |-> reason,
                                                              audio |-> audio]),
                                    !.exc = IF m.faults.callback
                                              THEN "on_utterance" ELSE @]
                ended == IF called.exc # "none" THEN called
                         ELSE [called EXCEPT !.vad = VadReset(@),
                                             !.utt_buf = <<>>,
                                             !.state = "LISTEN_WAKEWORD"]
            IN EmitState(EmitState(ended, IF timeout THEN "utterance_timeout"
                                          ELSE "utterance_complete"),
                         "idle")
       ELSE m

\* the greatest of id and the ids in seq
Latest(id, seq) ==
  LET ids == {id} \cup {seq[i] : i \in 1..Len(seq)}
  IN CHOOSE x \in ids : \A y \in ids : y <= x

Count(seq, x) == Cardinality({i \in 1..Len(seq) : seq[i] = x})

SinceWake(m) ==
  LET base == IF m.on_wake > 0 THEN [utterances |-> 0, timeouts |-> 0]
              ELSE since_wake
  IN [utterances |-> base.utterances + Len(m.utterances),
      timeouts |-> base.timeouts + Count(m.signals, "utterance_timeout")]

\* One iteration of the frame loop in LISTEN_WAKEWORD.
\*   raw_len, rms : the dequeued frame (rms taken after padding and gain)
\*   b            : answer of an injected gate
\*   dt           : time that passed while waiting for the frame
\*   fls          : what the callbacks may do if they are called
ListenFrame(raw_len, rms, b, dt, fls) ==
  /\ pc = "running"
  /\ state = "LISTEN_WAKEWORD"
  /\ nframes < MaxFrames
  /\ now + dt <= MaxTime
  /\ LET f == [id |-> nframes + 1, len |-> Pad(raw_len)]
         pre == IF cfg.wake_preroll_enabled
                  THEN AppendPreroll(wake_preroll_frames, wake_preroll_samples, f)
                  ELSE [frames |-> wake_preroll_frames,
                        samples |-> wake_preroll_samples]
         g == GateIsOpen(rms, b)
         replay == g.open /\ cfg.wake_preroll_enabled /\ g.just_opened
         offered == IF ~g.open THEN 0
                    ELSE IF replay THEN Len(pre.frames) ELSE 1
     IN \E dets \in SUBSET (1..offered),
           fl \in (IF offered = 0 THEN {NoFaults} ELSE fls) :
          LET step(fs) ==
                LET r == WakewordStep([Machine EXCEPT !.faults = fs], g.open,
                                      g.just_opened, pre.frames, f, dets,
                                      now + dt)
                IN IF r.exc # "none" THEN Finally(r) ELSE r
          IN \E m \in {step(fl)} :
             /\ dets = {} => fl = NoFaults
             /\ pc' = IF m.exc # "none" THEN "failed" ELSE pc
             /\ sigform' = SignalForm(sigform, m.signals)
             /\ wake_preroll_frames' = pre.frames
             /\ wake_preroll_samples' = pre.samples
             /\ wake_gate_open_frames' = g.hold
             /\ last_gate_open' = g.last
             /\ gate_just_opened' = g.just_opened
             /\ now' = now + dt
             /\ nframes' = nframes + 1
             /\ state' = m.state
             /\ utt_buf' = m.utt_buf
             /\ utt_start_t' = m.utt_start_t
             /\ vad' = m.vad
             /\ wakes' = wakes + m.on_wake
             /\ utts' = utts + Len(m.utterances)
             /\ since_wake' = SinceWake(m)
             /\ decoded' = Latest(decoded, m.process)
             /\ ev' = [kind |-> "frame",
                       state0 |-> "LISTEN_WAKEWORD",
                       gate |-> IF g.open THEN "open" ELSE "closed",
                       just_opened |-> g.just_opened,
                       replay |-> replay,
                       frame |-> f.id,
                       process |-> m.process,
                       detected |-> m.detected,
                       wake_resets |-> m.wake_resets,
                       clears |-> m.clears,
                       accept |-> m.accept,
                       appended |-> m.appended,
                       on_wake |-> m.on_wake,
                       vad_ready |-> FALSE,
                       timed_out |-> FALSE,
                       flush |-> m.flush,
                       utterances |-> m.utterances,
                       signals |-> m.signals,
                       exc |-> m.exc,
                       raised |-> m.raised,
                       shutdown |-> m.shutdown,
                       quiet |-> \/ fl.listener = {}
                                 \/ Observable(m) =
                                      Observable(step([fl EXCEPT !.listener = {}]))]
             /\ UNCHANGED cfg

\* One iteration of the frame loop in CAPTURE_UTTERANCE:
\* vad.accept_audio, _utt_buf.append, capture_utterance.
CaptureFrame(raw_len, outcome, dt, fls) ==
  /\ pc = "running"
  /\ state = "CAPTURE_UTTERANCE"
  /\ nframes < MaxFrames
  /\ now + dt <= MaxTime
  /\ LET f == [id |-> nframes + 1, len |-> Pad(raw_len)]
         v1 == VadAccept(vad, outcome)
         step(fs) ==
           LET r == CaptureUtterance([Machine EXCEPT !.faults = fs,
                                                     !.vad = v1,
                                                     !.accept = <<f.id>>,
                                                     !.utt_buf = Append(@, f),
                                                     !.appended = <<f.id>>],
                                     now + dt)
           IN IF r.exc # "none" THEN Finally(r) ELSE r
         finalizes == step(NoFaults).utterances # <<>>
     IN \E fl \in (IF finalizes THEN fls ELSE {NoFaults}) :
        \E m \in {step(fl)} :
        /\ pc' = IF m.exc # "none" THEN "failed" ELSE pc
        /\ sigform' = SignalForm(sigform, m.signals)
        /\ now' = now + dt
        /\ nframes' = nframes + 1
        /\ state' = m.state
        /\ utt_buf' = m.utt_buf
        /\ utt_start_t' = m.utt_start_t
        /\ vad' = m.vad
        /\ wakes' = wakes + m.on_wake
        /\ utts' = utts + Len(m.utterances)
        /\ since_wake' = SinceWake(m)
        /\ ev' = [kind |-> "frame",
                  state0 |-> "CAPTURE_UTTERANCE",
                  gate |-> "na",
                  just_opened |-> FALSE,
                  replay |-> FALSE,
                  frame |-> f.id,
                  process |-> m.process,
                  detected |-> m.detected,
                  wake_resets |-> m.wake_resets,
                  clears |-> m.clears,
                  accept |-> m.accept,
                  appended |-> m.appended,
                  on_wake |-> m.on_wake,
                  \* the two conditions as the environment presented them
                  vad_ready |-> outcome = "segment" \/ vad.queued > 0,
                  timed_out |-> (now + dt) - utt_start_t >= cfg.max_utterance_s,
                  flush |-> m.flush,
                  utterances |-> m.utterances,
                  signals |-> m.signals,
                  exc |-> m.exc,
                  raised |-> m.raised,
                  shutdown |-> m.shutdown,
                  quiet |-> \/ fl.listener = {}
                            \/ Observable(m) =
                                 Observable(step([fl EXCEPT !.listener = {}]))]
        /\ UNCHANGED <<cfg, wake_preroll_frames, wake_preroll_samples,
                       wake_gate_open_frames, last_gate_open, gate_just_opened,
                       decoded>>

\* The frame stream ends (the source was stopped): the finally block stops the
\* source, closes the gate and emits a last "idle".
StreamEnd(fl) ==
  /\ pc = "running"
  /\ LET m == Finally([Machine EXCEPT !.faults = fl])
     IN /\ pc' = IF m.exc # "none" THEN "failed" ELSE "stopped"
        /\ ev' = Event("end", m, Finally(Machine))
        /\ sigform' = SignalForm(sigform, m.signals)
  /\ UNCHANGED <<cfg, state, wake_preroll_frames, wake_preroll_samples,
                 wake_gate_open_frames, last_gate_open, gate_just_opened,
                 utt_buf, utt_start_t, vad, now, nframes, wakes, utts,
                 since_wake, decoded>>

\* ======================================================= ReSpeakerGate
\* ------------------------------------------------ ReSpeakerGate.__init__
GateConfigs ==
  { c \in [mode : {"rms", "xvf", "hybrid"},
           control : {"none", "unavailable", "available"},
           speech_energy : ThresholdPairs,
           open_consecutive_polls : OpenPolls,
           close_consecutive_polls : ClosePolls,
           rms_threshold : RmsThresholds,
           rms_hold_frames : GateHoldFrames] :
      \* arguments that the chosen configuration never reads are fixed
      /\ (~(c.mode \in {"xvf", "hybrid"} /\ c.control = "available") =>
            /\ c.speech_energy = <<4, 2>>
            /\ c.open_consecutive_polls = 1
            /\ c.close_consecutive_polls = 2)
      /\ (c.mode = "rms" => c.control = "none") }

xvf_enabled == gcfg.mode \in {"xvf", "hybrid"} /\ gcfg.control = "available"

\* old configs used tiny normalized defaults: both <= 1.0 selects 50000 / 5000
Legacy == gcfg.speech_energy[1] <= 1 /\ gcfg.speech_energy[2] <= 1

speech_energy_high == IF Legacy THEN 50000 ELSE gcfg.speech_energy[1]

speech_energy_low == IF Legacy THEN 5000 ELSE gcfg.speech_energy[2]

\* readings around the two thresholds
EnergyLevels ==
  {speech_energy_low - 1, speech_energy_low, speech_energy_low + 1,
   speech_energy_high, speech_energy_high + 1}

GateObject(hold) ==
  [xvf_open |-> FALSE, xvf_open_hits |-> 0, xvf_close_hits |-> 0,
   last_energy |-> None, last_gate_open |-> FALSE, rms_hold |-> hold,
   running |-> FALSE]

NoEval ==
  [valid |-> FALSE, rms |-> 0, result |-> FALSE, xvf_open |-> FALSE,
   ever_read |-> FALSE, last_read_ok |-> FALSE, expected_rms |-> FALSE,
   reference |-> FALSE]

\* late: the reads attempted since close() cleared the running flag
NoPoll == [valid |-> FALSE, ok |-> FALSE, energy |-> 0, open_before |-> FALSE,
           open_hits_before |-> 0, close_hits_before |-> 0, late |-> 0]

GateInit ==
  /\ gcfg \in GateConfigs
  /\ gate = [GateObject(0) EXCEPT !.running = xvf_enabled]
  /\ pollpc = IF xvf_enabled THEN "check" ELSE "idle"
  /\ ngframes = 0
  /\ geval = NoEval
  /\ gpoll = NoPoll
  /\ ref_gate = GateObject(0)
  /\ since_loud = None
  /\ ever_read = FALSE
  /\ hi_run = 0
  /\ lo_run = 0

\* hold that is never counted down
RmsOpenNoCountdown(hold, rms) ==
  IF gcfg.rms_threshold <= 0 THEN [open |-> TRUE, hold |-> hold]
  ELSE IF rms >= gcfg.rms_threshold
    THEN [open |-> TRUE, hold |-> gcfg.rms_hold_frames]
  ELSE IF hold > 0 THEN [open |-> TRUE, hold |-> hold]
  ELSE [open |-> FALSE, hold |-> hold]

\* ------------------------------------------------ ReSpeakerGate._rms_open
RmsOpen(hold, rms) ==
  IF gcfg.rms_threshold <= 0 THEN [open |-> TRUE, hold |-> hold]
  ELSE IF rms >= gcfg.rms_threshold
    THEN [open |-> TRUE, hold |-> gcfg.rms_hold_frames]
  ELSE IF hold > 0 THEN [open |-> TRUE, hold |-> hold - 1]
  ELSE [open |-> FALSE, hold |-> hold]

\* hybrid policy that OR-combines the two signals
IsOpenOrCombined(mode, enabled, g, rms) ==
  LET r == RmsOpen(g.rms_hold, rms)
      result == IF mode = "rms" THEN r.open
                ELSE IF mode = "xvf"
                  THEN (IF enabled THEN g.xvf_open ELSE r.open)
                ELSE IF enabled THEN (r.open \/ g.xvf_open)
                ELSE r.open
  IN [result |-> result,
      gate |-> [g EXCEPT !.rms_hold = r.hold, !.last_gate_open = result]]

\* hardware modes that never fall back to the RMS decision
IsOpenNoFallback(mode, enabled, g, rms) ==
  LET r == RmsOpen(g.rms_hold, rms)
      result == IF mode = "rms" THEN r.open
                ELSE IF mode = "xvf" THEN g.xvf_open
                ELSE IF g.last_energy # None THEN g.xvf_open ELSE r.open
  IN [result |-> result,
      gate |-> [g EXCEPT !.rms_hold = r.hold, !.last_gate_open = result]]

\* ------------------------------------------------- ReSpeakerGate.is_open
IsOpen(mode, enabled, g, rms) ==
  LET r == RmsOpen(g.rms_hold, rms)
      rms_open == r.open
      xvf_open == g.xvf_open
      energy_ready == g.last_energy # None
      result == IF mode = "rms" THEN rms_open
                ELSE IF mode = "xvf"
                  THEN (IF enabled THEN xvf_open ELSE rms_open)
                ELSE IF enabled
                  THEN (IF energy_ready THEN xvf_open ELSE rms_open)
                ELSE rms_open
  IN [result |-> result,
      gate |-> [g EXCEPT !.rms_hold = r.hold, !.last_gate_open = result]]

\* a single reading >= high opens the gate, a single reading <= low closes it
PollUpdateEager(g, energy) ==
  IF energy >= speech_energy_high
    THEN [g EXCEPT !.last_energy = Some(energy),
                   !.xvf_open_hits = g.xvf_open_hits + 1,
                   !.xvf_close_hits = 0,
                   !.xvf_open = TRUE]
  ELSE IF energy <= speech_energy_low
    THEN [g EXCEPT !.last_energy = Some(energy),
                   !.xvf_close_hits = g.xvf_close_hits + 1,
                   !.xvf_open_hits = 0,
                   !.xvf_open = FALSE]
  ELSE [g EXCEPT !.last_energy = Some(energy),
                 !.xvf_open_hits = 0,
                 !.xvf_close_hits = 0]

\* a reading between the thresholds leaves the counters alone
PollUpdateNoReset(g, energy) ==
  IF energy >= speech_energy_high
    THEN [g EXCEPT !.last_energy = Some(energy),
                   !.xvf_open_hits = g.xvf_open_hits + 1,
                   !.xvf_close_hits = 0,
                   !.xvf_open = IF g.xvf_open_hits + 1 >= gcfg.open_consecutive_polls
                                  THEN TRUE ELSE g.xvf_open]
  ELSE IF energy <= speech_energy_low
    THEN [g EXCEPT !.last_energy = Some(energy),
                   !.xvf_close_hits = g.xvf_close_hits + 1,
                   !.xvf_open_hits = 0,
                   !.xvf_open = IF g.xvf_close_hits + 1 >= gcfg.close_consecutive_polls
                                  THEN FALSE ELSE g.xvf_open]
  ELSE [g EXCEPT !.last_energy = Some(energy)]

\* ----------------------------------------------- ReSpeakerGate._poll_loop
\* the body of the try block for a reading that was obtained
PollUpdate(g, energy) ==
  IF energy >= speech_energy_high
    THEN [g EXCEPT !.last_energy = Some(energy),
                   !.xvf_open_hits = g.xvf_open_hits + 1,
                   !.xvf_close_hits = 0,
                   !.xvf_open = IF g.xvf_open_hits + 1 >= gcfg.open_consecutive_polls
                                  THEN TRUE ELSE g.xvf_open]
  ELSE IF energy <= speech_energy_low
    THEN [g EXCEPT !.last_energy = Some(energy),
                   !.xvf_close_hits = g.xvf_close_hits + 1,
                   !.xvf_open_hits = 0,
                   !.xvf_open = IF g.xvf_close_hits + 1 >= gcfg.close_consecutive_polls
                                  THEN FALSE ELSE g.xvf_open]
  ELSE [g EXCEPT !.last_energy = Some(energy),
                 !.xvf_open_hits = 0,
                 !.xvf_close_hits = 0]

\* a loop test that does not look at the running flag
PollCheckIgnoresFlag ==
  /\ pollpc = "check"
  /\ pollpc' = "read"
  /\ UNCHANGED <<gcfg, gate, ngframes, geval, gpoll, ref_gate, since_loud,
                 ever_read, hi_run, lo_run>>

\* the sleep has ended (or the thread has just started):
\* while self._running.is_set()
PollCheck ==
  /\ pollpc = "check"
  /\ pollpc' = IF gate.running THEN "read" ELSE "done"
  /\ UNCHANGED <<gcfg, gate, ngframes, geval, gpoll, ref_gate, since_loud,
                 ever_read, hi_run, lo_run>>

\* read_speech_energy returned energy; the thread then sleeps
PollRead(energy) ==
  /\ pollpc = "read"
  /\ energy >= speech_energy_high => gate.xvf_open_hits < MaxHits
  /\ energy < speech_energy_high /\ energy <= speech_energy_low =>
       gate.xvf_close_hits < MaxHits
  /\ gate' = PollUpdate(gate, energy)
  /\ pollpc' = "check"
  /\ ever_read' = TRUE
  /\ hi_run' = IF energy >= speech_energy_high THEN hi_run + 1 ELSE 0
  /\ lo_run' = IF energy <= speech_energy_low THEN lo_run + 1 ELSE 0
  /\ gpoll' = [valid |-> TRUE, ok |-> TRUE, energy |-> energy,
               open_before |-> gate.xvf_open,
               open_hits_before |-> gate.xvf_open_hits,
               close_hits_before |-> gate.xvf_close_hits,
               late |-> IF gate.running THEN gpoll.late ELSE gpoll.late + 1]
  /\ UNCHANGED <<gcfg, ngframes, geval, ref_gate, since_loud>>

\* except branch that forgets the hits counted so far
PollExceptResets(g) == [g EXCEPT !.xvf_open_hits = 0, !.xvf_close_hits = 0]

\* except Exception: logger.debug; nothing is assigned
PollExcept(g) == g

\* read_speech_energy raised: logged at debug level
PollFail ==
  /\ pollpc = "read"
  /\ pollpc' = "check"
  /\ gate' = PollExcept(gate)
  /\ gpoll' = [valid |-> TRUE, ok |-> FALSE, energy |-> 0,
               open_before |-> gate.xvf_open,
               open_hits_before |-> gate.xvf_open_hits,
               close_hits_before |-> gate.xvf_close_hits,
               late |-> IF gate.running THEN gpoll.late ELSE gpoll.late + 1]
  /\ UNCHANGED <<gcfg, ngframes, geval, ref_gate, since_loud,
                 ever_read, hi_run, lo_run>>

\* The consumer evaluates one frame. ref_gate is a gate constructed in rms
\* mode with the same rms_threshold and rms_hold_frames, fed the same frames.
GateFrame(rms) ==
  /\ ngframes < MaxGateFrames
  /\ LET r == IsOpen(gcfg.mode, xvf_enabled, gate, rms)
         ref == IsOpen("rms", FALSE, ref_gate, rms)
         loud == rms >= gcfg.rms_threshold
         sl == IF loud THEN Some(0)
               ELSE IF since_loud = None THEN None
               ELSE Some(since_loud[1] + 1)
     IN /\ gate' = r.gate
        /\ ref_gate' = ref.gate
        /\ since_loud' = sl
        /\ ngframes' = ngframes + 1
        /\ geval' = [valid |-> TRUE, rms |-> rms, result |-> r.result,
                     xvf_open |-> gate.xvf_open, ever_read |-> ever_read,
                     last_read_ok |-> gpoll.ok,
                     expected_rms |-> \/ gcfg.rms_threshold <= 0
                                      \/ (sl # None /\ sl[1] <= gcfg.rms_hold_frames),
                     reference |-> ref.result]
  /\ UNCHANGED <<gcfg, pollpc, gpoll, ever_read, hi_run, lo_run>>

\* metrics that report 0 while no energy has been read
MetricsZeroDefault(mode, g) ==
  [gate_mode |-> mode, gate_open |-> g.last_gate_open, xvf_open |-> g.xvf_open,
   speech_energy |-> IF g.last_energy # None
                       THEN [numeric |-> TRUE, value |-> g.last_energy[1]]
                       ELSE [numeric |-> TRUE, value |-> 0]]

\* ------------------------------------------------- ReSpeakerGate.metrics
\* speech_energy is the last energy read, or the text "-" (value "absent")
Metrics(mode, g) ==
  [gate_mode |-> mode, gate_open |-> g.last_gate_open, xvf_open |-> g.xvf_open,
   speech_energy |-> IF g.last_energy # None
                       THEN [numeric |-> TRUE, value |-> g.last_energy[1]]
                       ELSE [numeric |-> FALSE, value |-> "absent"]]

\* ---------------------------------------------------- ReSpeakerGate.close
GateClose ==
  /\ gate.running
  /\ gate' = [gate EXCEPT !.running = FALSE]
  /\ UNCHANGED <<gcfg, pollpc, ngframes, geval, gpoll, ref_gate, since_loud,
                 ever_read, hi_run, lo_run>>

\* self._running.clear(); the join waits for the poll thread and changes no
\* field
Close(g) == [g EXCEPT !.running = FALSE]

\* ============================================ ReSpeakerGate: self._lock
\* The gate statement by statement: the poll thread and the consumer thread
\* (is_open, metrics) each take self._lock (threading.Lock, not reentrant)
\* around the statements that touch the shared fields.
GateThreads == {"poll", "consumer"}

SharedFields ==
  {"xvf_open", "xvf_open_hits", "xvf_close_hits", "last_energy",
   "last_gate_open"}

\* th reads or writes the fields fs; held: th is inside `with self._lock`
Touch(th, fs) == {[thread |-> th, field |-> f, held |-> lock = th] : f \in fs}

NoLocals ==
  [rms_open |-> FALSE, xvf_open |-> FALSE, energy_ready |-> FALSE,
   result |-> FALSE]

NoLock ==
  /\ lock = "free"
  /\ ppos = "idle"
  /\ cpos = "idle"
  /\ plocal = None
  /\ clocal = NoLocals
  /\ touched = {}

\* the thread is started by the constructor when the hardware is enabled
LockInit ==
  /\ lock = "free"
  /\ ppos = IF xvf_enabled THEN "check" ELSE "idle"
  /\ cpos = "idle"
  /\ plocal = None
  /\ clocal = NoLocals
  /\ touched = {}

\* entering a with block that takes no lock
AcquireUnlocked(th) == lock' = lock

\* with self._lock: the thread waits until the lock is free
Acquire(th) == lock = "free" /\ lock' = th

\* the end of the with block
Release(th) == lock' = IF lock = th THEN "free" ELSE lock

\* while self._running.is_set()
LockPollCheck ==
  /\ ppos = "check"
  /\ ppos' = IF gate.running THEN "read" ELSE "done"
  /\ touched' = {}
  /\ UNCHANGED <<lock, cpos, plocal, clocal, gateVars>>

\* energy = float(self.control.read_speech_energy())
LockPollRead(energy) ==
  /\ ppos = "read"
  /\ energy >= speech_energy_high => gate.xvf_open_hits < MaxHits
  /\ energy < speech_energy_high /\ energy <= speech_energy_low =>
       gate.xvf_close_hits < MaxHits
  /\ plocal' = Some(energy)
  /\ ppos' = "acquire"
  /\ touched' = {}
  /\ UNCHANGED <<lock, cpos, clocal, gateVars>>

\* read_speech_energy raised: except, then the sleep
LockPollFail ==
  /\ ppos = "read"
  /\ ppos' = "sleep"
  /\ touched' = {}
  /\ UNCHANGED <<lock, cpos, plocal, clocal, gateVars>>

LockPollAcquire ==
  /\ ppos = "acquire"
  /\ Acquire("poll")
  /\ ppos' = "update"
  /\ touched' = {}
  /\ UNCHANGED <<cpos, plocal, clocal, gateVars>>

\* the body of the with block of _poll_loop
LockPollUpdate ==
  /\ ppos = "update"
  /\ gate' = PollUpdate(gate, plocal[1])
  /\ touched' = Touch("poll", {"last_energy", "xvf_open_hits", "xvf_close_hits",
                               "xvf_open"})
  /\ ppos' = "release"
  /\ UNCHANGED <<lock, cpos, plocal, clocal>>
  /\ UNCHANGED <<gcfg, pollpc, ngframes, geval, gpoll, ref_gate, since_loud,
                 ever_read, hi_run, lo_run>>

LockPollRelease ==
  /\ ppos = "release"
  /\ Release("poll")
  /\ ppos' = "sleep"
  /\ touched' = {}
  /\ UNCHANGED <<cpos, plocal, clocal, gateVars>>

\* time.sleep(self.poll_interval_s)
LockPollSleep ==
  /\ ppos = "sleep"
  /\ ppos' = "check"
  /\ touched' = {}
  /\ UNCHANGED <<lock, cpos, plocal, clocal, gateVars>>

\* is_open(frame): rms_open = self._rms_open(frame), before the first with
LockIsOpenBegin(rms) ==
  /\ cpos = "idle"
  /\ ngframes < MaxGateFrames
  /\ LET r == RmsOpen(gate.rms_hold, rms)
     IN /\ gate' = [gate EXCEPT !.rms_hold = r.hold]
        /\ clocal' = [NoLocals EXCEPT !.rms_open = r.open]
  /\ ngframes' = ngframes + 1
  /\ cpos' = "acquire_read"
  /\ touched' = {}
  /\ UNCHANGED <<lock, ppos, plocal>>
  /\ UNCHANGED <<gcfg, pollpc, geval, gpoll, ref_gate, since_loud,
                 ever_read, hi_run, lo_run>>

\* metrics()
LockMetricsBegin ==
  /\ cpos = "idle"
  /\ cpos' = "acquire_metrics"
  /\ clocal' = NoLocals
  /\ touched' = {}
  /\ UNCHANGED <<lock, ppos, plocal, gateVars>>

LockConsumerAcquire ==
  /\ cpos \in {"acquire_read", "acquire_write", "acquire_metrics"}
  /\ Acquire("consumer")
  /\ cpos' = IF cpos = "acquire_read" THEN "read"
             ELSE IF cpos = "acquire_write" THEN "write" ELSE "metrics"
  /\ touched' = {}
  /\ UNCHANGED <<ppos, plocal, clocal, gateVars>>

\* xvf_open = bool(self._xvf_open); energy_ready = self._last_energy is not None
LockIsOpenRead ==
  /\ cpos = "read"
  /\ clocal' = [clocal EXCEPT !.xvf_open = gate.xvf_open,
                              !.energy_ready = gate.last_energy # None]
  /\ touched' = Touch("consumer", {"xvf_open", "last_energy"})
  /\ cpos' = "release_read"
  /\ UNCHANGED <<lock, ppos, plocal, gateVars>>

\* the mode dispatch of is_open, on the locals
IsOpenResult(mode, enabled, l) ==
  IF mode = "rms" THEN l.rms_open
  ELSE IF mode = "xvf" THEN (IF enabled THEN l.xvf_open ELSE l.rms_open)
  ELSE IF enabled THEN (IF l.energy_ready THEN l.xvf_open ELSE l.rms_open)
  ELSE l.rms_open

\* self._last_gate_open = bool(result)
LockIsOpenWrite ==
  /\ cpos = "write"
  /\ gate' = [gate EXCEPT !.last_gate_open = clocal.result]
  /\ touched' = Touch("consumer", {"last_gate_open"})
  /\ cpos' = "release_write"
  /\ UNCHANGED <<lock, ppos, plocal, clocal>>
  /\ UNCHANGED <<gcfg, pollpc, ngframes, geval, gpoll, ref_gate, since_loud,
                 ever_read, hi_run, lo_run>>

\* energy = self._last_energy; xvf_open = self._xvf_open;
\* gate_open = self._last_gate_open
LockMetricsRead ==
  /\ cpos = "metrics"
  /\ clocal' = [clocal EXCEPT !.xvf_open = gate.xvf_open,
                              !.energy_ready = gate.last_energy # None,
                              !.result = gate.last_gate_open]
  /\ touched' = Touch("consumer", {"last_energy", "xvf_open", "last_gate_open"})
  /\ cpos' = "release_metrics"
  /\ UNCHANGED <<lock, ppos, plocal, gateVars>>

\* the end of a with block of the consumer; after the first block of is_open
\* the result is computed outside the lock
LockConsumerRelease ==
  /\ cpos \in {"release_read", "release_write", "release_metrics"}
  /\ Release("consumer")
  /\ cpos' = IF cpos = "release_read" THEN "acquire_write" ELSE "idle"
  /\ clocal' = IF cpos = "release_read"
                 THEN [clocal EXCEPT
                         !.result = IsOpenResult(gcfg.mode, xvf_enabled, clocal)]
                 ELSE clocal
  /\ touched' = {}
  /\ UNCHANGED <<ppos, plocal, gateVars>>

\* close(): self._running.clear(), whatever the two threads are doing
LockClose ==
  /\ gate.running
  /\ gate' = Close(gate)
  /\ touched' = {}
  /\ UNCHANGED <<lock, ppos, cpos, plocal, clocal>>
  /\ UNCHANGED <<gcfg, pollpc, ngframes, geval, gpoll, ref_gate, since_loud,
                 ever_read, hi_run, lo_run>>

\* ========================================================= AudioSource
\* ----------------------------- AudioInput.__init__, ArecordInput.__init__
AudioBackends == {"callback", "arecord"}

\* queue.Queue(maxsize=50)
QueueMaxsize == 50

\* _running clear, no stream / process, device not opened
AudioObject == [running |-> FALSE, stream |-> FALSE, device |-> "closed"]

\* removed: "none", "oldest" or "other" (a frame that was not the oldest)
\* emptied: the queue was empty when the producer came to remove a frame
NoPut == [kind |-> "none", emptied |-> FALSE, removed |-> "none",
          enqueued |-> FALSE, warned |-> FALSE]

\* the threads that call stop() on the source: the engine's own thread, in
\* the finally block of start(), and another thread
Callers == {"engine", "other"}

Other(th) == IF th = "engine" THEN "other" ELSE "engine"

\* a call of stop(): pos is the statement it is at ("none": no call in
\* progress), before the source as the call found it, released whether the
\* call stopped the stream / terminated the process, overlapped whether
\* another call was in progress at some time during this one
NoCall == [pos |-> "none", before |-> AudioObject, released |-> FALSE,
           overlapped |-> FALSE]

\* the last call that ended, by returning or by raising
NoStop == [calls |-> 0, released |-> FALSE, changed |-> FALSE,
           overlapped |-> FALSE, raised |-> FALSE]

\* frames: how many frames the device delivers in this run
AudioInit(frames) ==
  /\ acfg \in [backend : AudioBackends, frames : {frames}]
  /\ source = AudioObject
  /\ frame_q = <<>>
  /\ ppc = "wait"
  /\ pnew = 0
  /\ ncaptured = 0
  /\ cpc = "idle"
  /\ xstops = 0
  /\ stopcall = [th \in Callers |-> NoCall]
  /\ shutdown = <<>>
  /\ emitted = <<>>
  /\ yielded = <<>>
  /\ dropped = {}
  /\ afault = FALSE
  /\ aput = NoPut
  /\ astop = NoStop
  /\ gclose = NoStop

\* ------------------------------------------------------ queue.Queue
\* put_nowait that never finds the queue full
PutNowaitUnbounded(queue, x) == [queue |-> Append(queue, x), full |-> FALSE]

\* put_nowait: full is the queue.Full exception
PutNowait(queue, x) ==
  IF Len(queue) >= QueueMaxsize
    THEN [queue |-> queue, full |-> TRUE]
    ELSE [queue |-> Append(queue, x), full |-> FALSE]

\* a get that takes the newest frame instead of the oldest
GetNowaitNewest(queue) ==
  IF queue = <<>>
    THEN [queue |-> queue, item |-> None]
    ELSE [queue |-> SubSeq(queue, 1, Len(queue) - 1),
          item |-> Some(queue[Len(queue)])]

\* get_nowait, get(timeout): item None is the queue.Empty exception
GetNowait(queue) ==
  IF queue = <<>>
    THEN [queue |-> queue, item |-> None]
    ELSE [queue |-> Tail(queue), item |-> Some(Head(queue))]

\* ------------------------------- AudioInput.start, ArecordInput.start
\* SpeechEngine.start before the frame loop: audio_in.start(), then
\* _emit_state("idle")
SourceStart ==
  /\ cpc = "idle"
  /\ cpc' = "test"
  /\ source' = IF source.running THEN source
              ELSE [running |-> TRUE, stream |-> TRUE, device |-> "capturing"]
  /\ astop' = NoStop
  /\ emitted' = Append(emitted, "idle")
  /\ UNCHANGED <<acfg, frame_q, ppc, pnew, ncaptured, xstops, stopcall, shutdown,
                 afault, aput, gclose,
                 yielded, dropped>>

\* audio_in.start() raises: sd.InputStream(...) or Popen(...) cannot open the
\* device (no handle is kept), or the stream that was created cannot be
\* started (the handle is kept, _running stays clear). The call is the first
\* statement of SpeechEngine.start, before its try: the exception leaves
\* start() at once ("unopened"), without the finally block.
SourceOpenFail ==
  /\ cpc = "idle"
  /\ ~source.running
  /\ cpc' = "unopened"
  /\ \E kept \in (IF acfg.backend = "callback" THEN BOOLEAN ELSE {FALSE}) :
       source' = [running |-> FALSE, stream |-> kept, device |-> "closed"]
  /\ astop' = NoStop
  /\ UNCHANGED <<acfg, frame_q, ppc, pnew, ncaptured, xstops, stopcall, shutdown,
                 emitted, afault, aput, gclose, yielded, dropped>>

\* --------------- AudioInput.start._cb, ArecordInput._reader_loop: enqueue
\* A frame was captured: first put_nowait. PortAudio calls _cb while the
\* stream is active; the reader thread reads while _running is set.
ProducerPut ==
  /\ ppc = "wait"
  /\ source.device = "capturing"
  /\ acfg.backend = "arecord" => source.running
  /\ ncaptured < acfg.frames
  /\ LET x == ncaptured + 1
         r == PutNowait(frame_q, x)
     IN /\ frame_q' = r.queue
        /\ ncaptured' = x
        /\ ppc' = IF r.full THEN "full" ELSE "wait"
        /\ pnew' = IF r.full THEN x ELSE 0
        /\ aput' = [kind |-> IF r.full THEN "full" ELSE "put",
                    emptied |-> FALSE,
                    removed |-> "none", enqueued |-> ~r.full,
                    \* only _cb prints the overflow warning
                    warned |-> r.full /\ acfg.backend = "callback"]
  /\ UNCHANGED <<acfg, source, cpc, xstops, stopcall, shutdown, emitted, afault,
                 astop, gclose,
                 yielded, dropped>>

\* except queue.Full: get_nowait, queue.Empty ignored
ProducerDrop ==
  /\ ppc = "full"
  /\ LET r == GetNowait(frame_q)
     IN /\ frame_q' = r.queue
        /\ aput' = [aput EXCEPT !.kind = "drop",
                                !.emptied = frame_q = <<>>,
                                !.removed = IF r.item = None THEN "none"
                                            ELSE IF r.item = Some(Head(frame_q))
                                              THEN "oldest"
                                            ELSE "other"]
        /\ dropped' = IF r.item = None THEN dropped
                       ELSE dropped \cup {r.item[1]}
  /\ ppc' = "retry"
  /\ UNCHANGED <<acfg, source, pnew, ncaptured, cpc, xstops, stopcall, shutdown,
                 emitted, afault, astop, gclose, yielded>>

\* second put_nowait, queue.Full ignored
ProducerRetry ==
  /\ ppc = "retry"
  /\ LET r == PutNowait(frame_q, pnew)
     IN /\ frame_q' = r.queue
        /\ aput' = [aput EXCEPT !.kind = "retry", !.enqueued = ~r.full]
  /\ ppc' = "wait"
  /\ pnew' = 0
  /\ UNCHANGED <<acfg, source, ncaptured, cpc, xstops, stopcall, shutdown,
                 emitted, afault, astop, gclose,
                 yielded, dropped>>

\* The device stops delivering while capturing: the stream reports an error
\* (status, ignored by _cb) or the arecord process fails or ends.
DeviceFail ==
  /\ source.device = "capturing"
  /\ source' = [source EXCEPT !.device = "failed"]
  /\ afault' = TRUE
  /\ UNCHANGED <<acfg, frame_q, ppc, pnew, ncaptured, cpc, xstops, stopcall,
                 shutdown, emitted, aput, astop, gclose,
                 yielded, dropped>>

\* ArecordInput._reader_loop leaves its loop (_running clear, or read
\* returned less than a frame) and clears _running
ReaderExit ==
  /\ acfg.backend = "arecord"
  /\ ppc = "wait"
  /\ source.device # "closed"
  /\ ~source.running \/ source.device # "capturing"
  /\ ppc' = "done"
  /\ source' = [source EXCEPT !.running = FALSE]
  /\ UNCHANGED <<acfg, frame_q, pnew, ncaptured, cpc, xstops, stopcall, shutdown,
                 emitted, afault, aput, astop, gclose,
                 yielded, dropped>>

\* --------------------------------- AudioInput.stop, ArecordInput.stop
\* stop() is not synchronized: a call is a sequence of steps, each reading
\* self._stream / self._proc afresh, and the steps of two calls interleave.

\* the call of th goes on to the statement pos
StopGoesOn(th, a, pos, rel) ==
  /\ source' = a
  /\ stopcall' = [stopcall EXCEPT ![th].pos = pos, ![th].released = @ \/ rel]
  /\ UNCHANGED <<astop, cpc, shutdown>>

\* the call of th ends: it returns, or it raises (AttributeError, None has
\* no stop / close). In the engine's thread this is the first statement of
\* the finally block of start(): an exception leaves start() at once.
StopEnds(th, a, raised) ==
  /\ source' = a
  /\ stopcall' = [stopcall EXCEPT ![th] = NoCall]
  /\ astop' = [calls |-> IF astop.calls < 2 THEN astop.calls + 1 ELSE 2,
               released |-> stopcall[th].released,
               changed |-> a # stopcall[th].before,
               overlapped |-> stopcall[th].overlapped,
               raised |-> raised]
  /\ cpc' = IF th # "engine" THEN cpc
            ELSE IF raised THEN "raised" ELSE "closing"
  /\ shutdown' = IF th = "engine" /\ ~raised THEN <<"audio_stop">> ELSE shutdown

\* self._running.clear(), the first statement of stop()
StopBegin(th) ==
  /\ stopcall[th].pos = "none"
  /\ source' = [source EXCEPT !.running = FALSE]
  /\ stopcall' =
       [c \in Callers |->
          IF c = th
            THEN [pos |-> "test", before |-> source, released |-> FALSE,
                  overlapped |-> stopcall[Other(th)].pos # "none"]
            ELSE IF stopcall[c].pos # "none"
              THEN [stopcall[c] EXCEPT !.overlapped = TRUE]
            ELSE stopcall[c]]
  /\ UNCHANGED <<acfg, frame_q, ppc, pnew, ncaptured, cpc, shutdown, emitted,
                 afault, aput, astop, gclose,
                 yielded, dropped>>

\* stop() called from another thread
ExternalStop ==
  /\ cpc # "idle"
  /\ xstops < MaxStops
  /\ StopBegin("other")
  /\ xstops' = xstops + 1

\* the finally block of SpeechEngine.start calls audio_in.stop()
EngineStop ==
  /\ cpc = "finally"
  /\ StopBegin("engine")
  /\ UNCHANGED xstops

\* if self._stream is not None: / if self._proc is not None:
StopTest(th) ==
  /\ stopcall[th].pos = "test"
  /\ IF source.stream
       THEN StopGoesOn(th, source, "stop", FALSE)
       ELSE StopEnds(th, source, FALSE)
  /\ UNCHANGED <<acfg, frame_q, ppc, pnew, ncaptured, xstops, emitted, afault,
                 aput, gclose,
                 yielded, dropped>>

\* AudioInput: self._stream.stop(); on None it raises, and so does the
\* close() of the finally clause.
\* ArecordInput: terminate(), wait(), kill(), each inside try / except.
StopStream(th) ==
  /\ stopcall[th].pos = "stop"
  /\ IF acfg.backend = "arecord"
       THEN StopGoesOn(th, [source EXCEPT !.device = IF source.stream
                                                       THEN "released" ELSE @],
                       "forget", source.stream)
       ELSE IF source.stream
         \* stop() on a stream already closed is ignored (ignore_errors)
         THEN StopGoesOn(th, [source EXCEPT !.device = IF @ = "released" THEN @
                                                       ELSE "stopped"],
                         "close", TRUE)
       ELSE StopEnds(th, source, TRUE)
  /\ UNCHANGED <<acfg, frame_q, ppc, pnew, ncaptured, xstops, emitted, afault,
                 aput, gclose,
                 yielded, dropped>>

\* AudioInput: finally: self._stream.close(); on None it raises
StopCloseStream(th) ==
  /\ stopcall[th].pos = "close"
  /\ IF source.stream
       THEN StopGoesOn(th, [source EXCEPT !.device = "released"], "forget", TRUE)
       ELSE StopEnds(th, source, TRUE)
  /\ UNCHANGED <<acfg, frame_q, ppc, pnew, ncaptured, xstops, emitted, afault,
                 aput, gclose,
                 yielded, dropped>>

\* a stop() that keeps the handle of the stream / process
ForgetKeepsHandle(a) == a

\* self._stream = None / self._proc = None
Forget(a) == [a EXCEPT !.stream = FALSE]

\* the last assignment of stop(); ArecordInput then joins its reader thread
\* for at most a second
StopForget(th) ==
  /\ stopcall[th].pos = "forget"
  /\ StopEnds(th, Forget(source), FALSE)
  /\ UNCHANGED <<acfg, frame_q, ppc, pnew, ncaptured, xstops, emitted, afault,
                 aput, gclose,
                 yielded, dropped>>

\* ------------------------------ AudioInput.frames, ArecordInput.frames
\* frames() that gives up when the queue times out
FramesOnEmptyBreak == "finally"

\* except queue.Empty: continue
FramesOnEmpty == "test"

\* while self._running.is_set(): when the test fails the generator returns
\* and the engine's frame loop ends
ConsumerTest ==
  /\ cpc = "test"
  /\ cpc' = IF source.running THEN "get" ELSE "finally"
  /\ UNCHANGED <<acfg, source, frame_q, ppc, pnew, ncaptured, xstops, stopcall,
                 shutdown, emitted, afault, aput, astop, gclose,
                 yielded, dropped>>

\* self._q.get(timeout) returns a frame: it is yielded and processed (a
\* frame in which the wake detector finds nothing)
ConsumerGet ==
  /\ cpc = "get"
  /\ frame_q # <<>>
  /\ LET r == GetNowait(frame_q)
     IN /\ frame_q' = r.queue
        /\ yielded' = Append(yielded, r.item[1])
  /\ cpc' = "test"
  /\ UNCHANGED <<acfg, source, ppc, pnew, ncaptured, xstops, stopcall, shutdown,
                 emitted, afault, aput, astop, gclose, dropped>>

\* self._q.get(timeout) raises queue.Empty: continue
ConsumerTimeout ==
  /\ cpc = "get"
  /\ frame_q = <<>>
  /\ cpc' = FramesOnEmpty
  /\ UNCHANGED <<acfg, source, frame_q, ppc, pnew, ncaptured, xstops, stopcall,
                 shutdown, emitted, afault, aput, astop, gclose,
                 yielded, dropped>>

\* close() called at any time, also on a gate already closed
CloseCall ==
  /\ gclose.calls < MaxStops
  /\ gate' = Close(gate)
  /\ gclose' = [NoStop EXCEPT !.calls = gclose.calls + 1,
                              !.released = gate.running,
                              !.changed = Close(gate) # gate]
  /\ UNCHANGED <<gcfg, pollpc, ngframes, geval, gpoll, ref_gate, since_loud,
                 ever_read, hi_run, lo_run>>
  /\ UNCHANGED <<acfg, source, frame_q, ppc, pnew, ncaptured, cpc, xstops,
                 stopcall, shutdown, emitted, afault, aput, astop,
                 yielded, dropped>>

\* ------------------------- SpeechEngine.start: finally, after stop()
\* audio_in.stop() has returned: self._gate.close(), _emit_state("idle"),
\* and start() returns
EngineFinally ==
  /\ cpc = "closing"
  /\ cpc' = "returned"
  /\ gate' = Close(gate)
  /\ shutdown' = shutdown \o <<"gate_close", "emit_idle">>
  /\ emitted' = Append(emitted, "idle")
  /\ UNCHANGED <<gcfg, pollpc, ngframes, geval, gpoll, ref_gate, since_loud,
                 ever_read, hi_run, lo_run>>
  /\ UNCHANGED <<acfg, source, frame_q, ppc, pnew, ncaptured, xstops, stopcall,
                 afault, aput, astop, gclose,
                 yielded, dropped>>

\* ================================================= construction from settings
\* the values a deployment can write in its file or pass to a constructor:
\* well-formed ones, an inverted threshold pair (above and below the
\* legacy range), a well-formed pair inside the legacy range (where the
\* defaults of ReSpeakerSettings, 0.001 and 0.0001, lie), zero and negative
\* durations and counts
SettingPairs ==                                  \* speech_energy_high, _low
  {<<4, 2>>, <<2, 4>>, <<0, 1>>, <<1, 0>>}
SettingDurations == {-1, 0, 2}                   \* max_utterance_s
SettingIntervals == {-50, 0, 50}                 \* poll_interval_ms
SettingPolls == {-1, 0, 2}                       \* open / close_consecutive_polls
SettingPrerollMs == {-25, 50}                    \* speech.wake_preroll_ms

Settings ==
  [speech_energy : SettingPairs,
   max_utterance_s : SettingDurations,
   poll_interval_ms : SettingIntervals,
   open_consecutive_polls : SettingPolls,
   close_consecutive_polls : SettingPolls,
   wake_preroll_enabled : BOOLEAN,
   wake_preroll_ms : SettingPrerollMs]

Max(a, b) == IF a >= b THEN a ELSE b

Raised(message) == [raised |-> Some(message), value |-> None]

Returned(value) == [raised |-> None, value |-> Some(value)]

\* ------------------------------------------------ SatelliteConfig.validate
\* the checks on the fields above, in the order of the code
Validate(c) ==
  IF c.max_utterance_s <= 0 THEN Some("vad.max_utterance_s must be > 0")
  ELSE IF c.wake_preroll_ms < 0
    THEN Some("speech.wake_preroll_ms must be >= 0")
  ELSE IF c.poll_interval_ms <= 0
    THEN Some("respeaker.poll_interval_ms must be > 0")
  ELSE IF c.speech_energy[1] < 0
    THEN Some("respeaker.speech_energy_high must be >= 0")
  ELSE IF c.speech_energy[2] < 0
    THEN Some("respeaker.speech_energy_low must be >= 0")
  ELSE IF c.speech_energy[2] > c.speech_energy[1]
    THEN Some("respeaker.speech_energy_low must be <= respeaker.speech_energy_high")
  ELSE IF c.open_consecutive_polls <= 0
    THEN Some("respeaker.open_consecutive_polls must be > 0")
  ELSE IF c.close_consecutive_polls <= 0
    THEN Some("respeaker.close_consecutive_polls must be > 0")
  ELSE None

\* ----------------------------------------------- SatelliteConfig.from_dict
\* the interval and the counts are clamped to 1, the pre-roll duration to 0,
\* before validate() sees them
FromDict(data) ==
  LET config == [data EXCEPT
                   !.wake_preroll_ms = Max(0, @),
                   !.poll_interval_ms = Max(1, @),
                   !.open_consecutive_polls = Max(1, @),
                   !.close_consecutive_polls = Max(1, @)]
      error == Validate(config)
  IN IF error # None THEN Raised(error[1]) ELSE Returned(config)

\* ------------------------------------------------ ReSpeakerGate.__init__
\* the arguments are clamped or replaced, never rejected: the interval to
\* 10 ms, the counts to 1, a pair in the legacy range by 50000 / 5000
GateNew(args) ==
  LET legacy == args.speech_energy[1] <= 1 /\ args.speech_energy[2] <= 1
  IN Returned([poll_interval_ms |-> Max(10, args.poll_interval_ms),
               speech_energy_high |->
                 IF legacy THEN 50000 ELSE args.speech_energy[1],
               speech_energy_low |->
                 IF legacy THEN 5000 ELSE args.speech_energy[2],
               open_consecutive_polls |-> Max(1, args.open_consecutive_polls),
               close_consecutive_polls |->
                 Max(1, args.close_consecutive_polls)])

\* ------------------------------------------------- SpeechEngine.__init__
\* with the VAD backend injected, max_utterance_s is stored as given; the
\* pre-roll duration is clamped to 0
EngineNew(args) ==
  Returned([max_utterance_s |-> args.max_utterance_s,
            wake_preroll_enabled |-> args.wake_preroll_enabled,
            wake_preroll_ms |-> Max(0, args.wake_preroll_ms)])

\* the defaults of the keyword arguments of SpeechEngine.__init__
DefaultPrerollEnabled == TRUE
DefaultPrerollMs == 400

\* ------------------------------------------------- _build_speech_engine
\* the two programs that build an engine from a loaded configuration
EntryPoints == {"main", "lva_satellite_frontend"}

\* the keyword arguments of the SpeechEngine(...) call: main.py passes no
\* wake_preroll_enabled and no wake_preroll_ms, so the defaults apply
BuildSpeechEngine(entry, config) ==
  IF entry = "main"
    THEN [max_utterance_s |-> config.max_utterance_s,
          wake_preroll_enabled |-> DefaultPrerollEnabled,
          wake_preroll_ms |-> DefaultPrerollMs]
    ELSE [max_utterance_s |-> config.max_utterance_s,
          wake_preroll_enabled |-> config.wake_preroll_enabled,
          wake_preroll_ms |-> config.wake_preroll_ms]

NotBuilt == [config |-> None, gate |-> None, engine |-> None, entry |-> None]

NoLoad ==
  /\ settings = [speech_energy |-> <<4, 2>>, max_utterance_s |-> 2,
                 poll_interval_ms |-> 50, open_consecutive_polls |-> 2,
                 close_consecutive_polls |-> 2,
                 wake_preroll_enabled |-> FALSE, wake_preroll_ms |-> 50]
  /\ built = NotBuilt

LoadInit ==
  /\ settings \in Settings
  /\ built = NotBuilt

\* ConfigManager.load on a file that holds the settings
LoadConfig ==
  /\ built.config = None
  /\ built' = [built EXCEPT !.config = Some(FromDict(settings))]
  /\ UNCHANGED settings

\* ReSpeakerGate(control, ...) called with the settings as arguments
ConstructGate ==
  /\ built.gate = None
  /\ built' = [built EXCEPT !.gate = Some(GateNew(settings))]
  /\ UNCHANGED settings

\* SpeechEngine(..., max_utterance_s = ...) called with the setting
ConstructEngine ==
  /\ built.engine = None
  /\ built' = [built EXCEPT !.engine = Some(EngineNew(settings))]
  /\ UNCHANGED settings

\* ============================================================ the systems
vars == <<engineVars, gateVars, audioVars, loadVars, lockVars>>

\* the engine runs with its built-in gate or with an injected gate whose
\* answers are arbitrary; no ReSpeakerGate is running
NoGate ==
  /\ gcfg = [mode |-> "rms", control |-> "none", speech_energy |-> <<4, 2>>,
             open_consecutive_polls |-> 1, close_consecutive_polls |-> 2,
             rms_threshold |-> 2, rms_hold_frames |-> 0]
  /\ gate = GateObject(0)
  /\ pollpc = "idle"
  /\ ngframes = 0
  /\ geval = NoEval
  /\ gpoll = NoPoll
  /\ ref_gate = GateObject(0)
  /\ since_loud = None
  /\ ever_read = FALSE
  /\ hi_run = 0
  /\ lo_run = 0

\* a gate alone: the engine is constructed and never started
NoEngine ==
  /\ EngineInit
  /\ cfg = [gate |-> "injected", sample_rate |-> 100, wake_rms_gate |-> 2,
            wake_gate_hold_frames |-> 0, wake_preroll_enabled |-> FALSE,
            wake_preroll_ms |-> 0, max_utterance_s |-> 2]

\* no frame source is modelled: the frames reach the engine as inputs
NoAudio ==
  /\ AudioInit(0)
  /\ acfg.backend = "callback"

Init == EngineInit /\ NoGate /\ NoAudio /\ NoLoad /\ NoLock

Listen ==
  \E raw_len \in RawFrameLens, dt \in {0, 1} :
    \E rms \in (IF cfg.gate = "none" THEN RmsLevels ELSE {1}),
       b \in (IF cfg.gate = "injected" THEN BOOLEAN ELSE {FALSE}) :
      ListenFrame(raw_len, rms, b, dt, {NoFaults})

Capture ==
  \E raw_len \in RawFrameLens, outcome \in VadOutcomes, dt \in {0, 1} :
    CaptureFrame(raw_len, outcome, dt, {NoFaults})

Next ==
  \/ EngineStart(NoFaults) /\ UNCHANGED <<gateVars, audioVars, loadVars, lockVars>>
  \/ Listen /\ UNCHANGED <<gateVars, audioVars, loadVars, lockVars>>
  \/ Capture /\ UNCHANGED <<gateVars, audioVars, loadVars, lockVars>>
  \/ StreamEnd(NoFaults) /\ UNCHANGED <<gateVars, audioVars, loadVars, lockVars>>

Spec == Init /\ [][Next]_vars

\* the engine with callbacks and a state listener that may raise
ListenerFaults == {fl \in Faults : ~fl.callback /\ fl.listener \subseteq {1}}

FaultStart == \E fl \in ListenerFaults : EngineStart(fl)

FaultListen ==
  \E raw_len \in RawFrameLens, dt \in {0, 1} :
    \E rms \in (IF cfg.gate = "none" THEN RmsLevels ELSE {1}),
       b \in (IF cfg.gate = "injected" THEN BOOLEAN ELSE {FALSE}) :
      ListenFrame(raw_len, rms, b, dt, Faults)

FaultCapture ==
  \E raw_len \in RawFrameLens, outcome \in VadOutcomes, dt \in {0, 1} :
    CaptureFrame(raw_len, outcome, dt, Faults)

FaultEnd == \E fl \in ListenerFaults : StreamEnd(fl)

FaultNext ==
  \/ FaultStart /\ UNCHANGED <<gateVars, audioVars, loadVars, lockVars>>
  \/ FaultListen /\ UNCHANGED <<gateVars, audioVars, loadVars, lockVars>>
  \/ FaultCapture /\ UNCHANGED <<gateVars, audioVars, loadVars, lockVars>>
  \/ FaultEnd /\ UNCHANGED <<gateVars, audioVars, loadVars, lockVars>>

\* the faults do not depend on how the gate and the pre-roll are tuned: a
\* built-in gate that is always open, or an injected gate with any answers
FaultInit ==
  /\ Init
  /\ cfg.wake_gate_hold_frames = 0
  /\ cfg.wake_preroll_ms \in {0, 50}
  /\ cfg.gate = "none" => cfg.wake_rms_gate = 0 /\ ~cfg.wake_preroll_enabled

FaultSpec == FaultInit /\ [][FaultNext]_vars

GateInitial == GateInit /\ NoEngine /\ NoAudio /\ NoLoad /\ NoLock

Poll == \E energy \in EnergyLevels : PollRead(energy)

Evaluate == \E rms \in RmsLevels : GateFrame(rms)

GateNext ==
  \/ PollCheck /\ UNCHANGED <<engineVars, audioVars, loadVars, lockVars>>
  \/ Poll /\ UNCHANGED <<engineVars, audioVars, loadVars, lockVars>>
  \/ PollFail /\ UNCHANGED <<engineVars, audioVars, loadVars, lockVars>>
  \/ Evaluate /\ UNCHANGED <<engineVars, audioVars, loadVars, lockVars>>
  \/ GateClose /\ UNCHANGED <<engineVars, audioVars, loadVars, lockVars>>

GateSpec == GateInitial /\ [][GateNext]_vars

\* the poll thread is scheduled, its sleep ends, and a hardware read returns
\* or raises (xvf_host is run with a timeout)
PollThread == (PollCheck \/ Poll \/ PollFail) /\ UNCHANGED <<engineVars, audioVars, loadVars, lockVars>>

\* the end of the poll thread does not depend on how the gate is tuned: one
\* tuning, every mode, control present or not
GateLiveInit ==
  /\ GateInitial
  /\ gcfg.rms_threshold = 2
  /\ gcfg.rms_hold_frames = 0
  /\ gcfg.speech_energy = <<4, 2>>
  /\ gcfg.open_consecutive_polls = 1
  /\ gcfg.close_consecutive_polls = 2

GateLive == GateLiveInit /\ [][GateNext]_vars /\ WF_vars(PollThread)

\* an AudioSource with its producer and the engine's frame loop as its
\* consumer, for as long as nobody stops the source
AudioInitial == AudioInit(MaxCaptured) /\ NoEngine /\ NoGate /\ NoLoad /\ NoLock

AudioNext ==
  \/ SourceStart /\ UNCHANGED <<engineVars, gateVars, loadVars, lockVars>>
  \/ ProducerPut /\ UNCHANGED <<engineVars, gateVars, loadVars, lockVars>>
  \/ ProducerDrop /\ UNCHANGED <<engineVars, gateVars, loadVars, lockVars>>
  \/ ProducerRetry /\ UNCHANGED <<engineVars, gateVars, loadVars, lockVars>>
  \/ ConsumerTest /\ UNCHANGED <<engineVars, gateVars, loadVars, lockVars>>
  \/ ConsumerGet /\ UNCHANGED <<engineVars, gateVars, loadVars, lockVars>>
  \/ ConsumerTimeout /\ UNCHANGED <<engineVars, gateVars, loadVars, lockVars>>

AudioSpec == AudioInitial /\ [][AudioNext]_vars

\* the life cycle of a source and of a gate: a device that may fail, the
\* engine's frame loop over silent frames and its finally block, stop()
\* called by another thread while the engine runs or after it, close()
\* called on the gate
SourceInitial ==
  /\ AudioInit(MaxBacklog)
  /\ NoEngine
  /\ NoLoad
  /\ NoLock
  /\ GateInit
  /\ gcfg.rms_threshold = 2
  /\ gcfg.rms_hold_frames = 0
  /\ gcfg.speech_energy = <<4, 2>>
  /\ gcfg.open_consecutive_polls = 1
  /\ gcfg.close_consecutive_polls = 2

SourceNext ==
  \/ SourceStart /\ UNCHANGED <<engineVars, gateVars, loadVars, lockVars>>
  \/ SourceOpenFail /\ UNCHANGED <<engineVars, gateVars, loadVars, lockVars>>
  \/ ProducerPut /\ UNCHANGED <<engineVars, gateVars, loadVars, lockVars>>
  \/ DeviceFail /\ UNCHANGED <<engineVars, gateVars, loadVars, lockVars>>
  \/ ReaderExit /\ UNCHANGED <<engineVars, gateVars, loadVars, lockVars>>
  \/ ExternalStop /\ UNCHANGED <<engineVars, gateVars, loadVars, lockVars>>
  \/ ConsumerTest /\ UNCHANGED <<engineVars, gateVars, loadVars, lockVars>>
  \/ ConsumerGet /\ UNCHANGED <<engineVars, gateVars, loadVars, lockVars>>
  \/ ConsumerTimeout /\ UNCHANGED <<engineVars, gateVars, loadVars, lockVars>>
  \/ EngineStop /\ UNCHANGED <<engineVars, gateVars, loadVars, lockVars>>
  \/ (\E th \in Callers : StopTest(th)) /\ UNCHANGED <<engineVars, gateVars, loadVars, lockVars>>
  \/ (\E th \in Callers : StopStream(th)) /\ UNCHANGED <<engineVars, gateVars, loadVars, lockVars>>
  \/ (\E th \in Callers : StopCloseStream(th))
       /\ UNCHANGED <<engineVars, gateVars, loadVars, lockVars>>
  \/ (\E th \in Callers : StopForget(th)) /\ UNCHANGED <<engineVars, gateVars, loadVars, lockVars>>
  \/ EngineFinally /\ UNCHANGED <<engineVars, loadVars, lockVars>>
  \/ CloseCall /\ UNCHANGED <<engineVars, loadVars, lockVars>>

SourceSpec == SourceInitial /\ [][SourceNext]_vars

\* the consumer thread is scheduled: a pending loop test, get or timeout of
\* frames() eventually happens
Consumer ==
  (ConsumerTest \/ ConsumerGet \/ ConsumerTimeout)
  /\ UNCHANGED <<engineVars, gateVars, loadVars, lockVars>>

SourceLive == SourceSpec /\ WF_vars(Consumer)

\* the constructors applied to what a deployment supplies
LoadInitial == LoadInit /\ NoEngine /\ NoGate /\ NoAudio /\ NoLock

LoadNext ==
  \/ LoadConfig /\ UNCHANGED <<engineVars, gateVars, audioVars, lockVars>>
  \/ ConstructGate /\ UNCHANGED <<engineVars, gateVars, audioVars, lockVars>>
  \/ ConstructEngine /\ UNCHANGED <<engineVars, gateVars, audioVars, lockVars>>

LoadSpec == LoadInitial /\ [][LoadNext]_vars

\* an entry point has loaded a valid configuration and built its engine,
\* which then runs with the gate it was given
EntrySettings ==
  {s \in Settings : /\ s.speech_energy = <<4, 2>>
                    /\ s.max_utterance_s = 2
                    /\ s.poll_interval_ms = 50
                    /\ s.open_consecutive_polls = 2
                    /\ s.close_consecutive_polls = 2}

EntryInitial ==
  /\ settings \in EntrySettings
  /\ \E entry \in EntryPoints :
       LET config == FromDict(settings).value[1]
           engine == EngineNew(BuildSpeechEngine(entry, config))
       IN /\ built = [config |-> Some(FromDict(settings)), gate |-> None,
                      engine |-> Some(engine), entry |-> Some(entry)]
          /\ cfg = [gate |-> "injected", sample_rate |-> 100,
                    wake_rms_gate |-> 2, wake_gate_hold_frames |-> 0,
                    wake_preroll_enabled |-> engine.value[1].wake_preroll_enabled,
                    wake_preroll_ms |-> engine.value[1].wake_preroll_ms,
                    max_utterance_s |-> engine.value[1].max_utterance_s]
  /\ EngineConstructed
  /\ NoGate /\ NoAudio /\ NoLock

EntrySpec == EntryInitial /\ [][Next]_vars

\* a gate with its poll thread and a consumer calling is_open and metrics,
\* statement by statement, for one tuning of the thresholds
LockInitial ==
  /\ GateInit /\ NoEngine /\ NoAudio /\ NoLoad /\ LockInit
  /\ gcfg.rms_threshold = 2
  /\ gcfg.rms_hold_frames = 0
  /\ gcfg.speech_energy = <<4, 2>>
  /\ gcfg.open_consecutive_polls = 1
  /\ gcfg.close_consecutive_polls = 2

LockPoll == \E energy \in EnergyLevels : LockPollRead(energy)

LockEvaluate == \E rms \in RmsLevels : LockIsOpenBegin(rms)

LockNext ==
  \/ LockPollCheck /\ UNCHANGED <<engineVars, audioVars, loadVars>>
  \/ LockPoll /\ UNCHANGED <<engineVars, audioVars, loadVars>>
  \/ LockPollFail /\ UNCHANGED <<engineVars, audioVars, loadVars>>
  \/ LockPollAcquire /\ UNCHANGED <<engineVars, audioVars, loadVars>>
  \/ LockPollUpdate /\ UNCHANGED <<engineVars, audioVars, loadVars>>
  \/ LockPollRelease /\ UNCHANGED <<engineVars, audioVars, loadVars>>
  \/ LockPollSleep /\ UNCHANGED <<engineVars, audioVars, loadVars>>
  \/ LockEvaluate /\ UNCHANGED <<engineVars, audioVars, loadVars>>
  \/ LockMetricsBegin /\ UNCHANGED <<engineVars, audioVars, loadVars>>
  \/ LockConsumerAcquire /\ UNCHANGED <<engineVars, audioVars, loadVars>>
  \/ LockIsOpenRead /\ UNCHANGED <<engineVars, audioVars, loadVars>>
  \/ LockIsOpenWrite /\ UNCHANGED <<engineVars, audioVars, loadVars>>
  \/ LockMetricsRead /\ UNCHANGED <<engineVars, audioVars, loadVars>>
  \/ LockConsumerRelease /\ UNCHANGED <<engineVars, audioVars, loadVars>>
  \/ LockClose /\ UNCHANGED <<engineVars, audioVars, loadVars>>

LockSpec == LockInitial /\ [][LockNext]_vars

\* ================================================================ claims
RECURSIVE SumLen(_)
SumLen(frames) ==
  IF frames = <<>> THEN 0 ELSE Head(frames).len + SumLen(Tail(frames))

ListenStep == ev.kind = "frame" /\ ev.state0 = "LISTEN_WAKEWORD"

CaptureStep == ev.kind = "frame" /\ ev.state0 = "CAPTURE_UTTERANCE"

\* C1: while handling a frame in ListenWakeword for which the gate (built-in
\* RMS gate or injected gate) reports closed, the engine makes no call to the
\* wake detector's process.
C1_NoProcessWhileClosed ==
  (ListenStep /\ ev.gate = "closed") => ev.process = <<>>

\* a closed frame that follows an open one, with frames waiting in the pre-roll
C1_Witness ==
  /\ ListenStep /\ ev.gate = "closed" /\ ev.process = <<>>
  /\ last_gate_open = Some(FALSE)
  /\ wake_preroll_frames # <<>>
  /\ ev.frame >= 2

\* C2: in every state the pre-roll buffer holds at most
\* preroll_ms * sample_rate / 1000 samples, and the tracked sample counter is
\* the sum of the lengths of the buffered frames.
C2_PrerollBounded ==
  /\ wake_preroll_samples * 1000 <= cfg.wake_preroll_ms * cfg.sample_rate
  /\ wake_preroll_samples = SumLen(wake_preroll_frames)

\* an append that evicted the oldest frames and kept the newest
C2_Witness ==
  /\ ListenStep
  /\ Len(wake_preroll_frames) = 1
  /\ wake_preroll_frames[1].id = ev.frame
  /\ ev.frame >= 3
  /\ wake_preroll_samples = 3

\* C3: a detection in ListenWakeword delivers exactly one on_wake callback,
\* moves the engine to CaptureUtterance and emits exactly wake_detected then
\* capturing_utterance, also when it happens during pre-roll replay.
C3_WakeTransition ==
  (ListenStep /\ ev.detected # <<>>) =>
     /\ Len(ev.detected) = 1
     /\ ev.on_wake = 1
     /\ state = "CAPTURE_UTTERANCE"
     /\ ev.signals = <<"wake_detected", "capturing_utterance">>

\* a detection on the second frame of a pre-roll replay
C3_Witness ==
  /\ ListenStep /\ ev.replay
  /\ Len(ev.process) = 2
  /\ ev.detected = <<ev.process[2]>>
  /\ state = "CAPTURE_UTTERANCE"

\* C4: a capture whose VAD is not ready on the frame at which max_utterance_s
\* has elapsed ends with exactly one Utterance of reason timeout and one
\* utterance_timeout signal, the engine is back in ListenWakeword, and no
\* second Utterance or utterance_timeout follows for that wake event.
C4_SingleTimeout ==
  /\ since_wake.utterances <= 1
  /\ since_wake.timeouts <= 1
  /\ (CaptureStep /\ ~ev.vad_ready /\ ev.timed_out) =>
        /\ Len(ev.utterances) = 1
        /\ ev.utterances[1].reason = "timeout"
        /\ ev.signals = <<"utterance_timeout", "idle">>
        /\ state = "LISTEN_WAKEWORD"
        /\ since_wake = [utterances |-> 1, timeouts |-> 1]
  /\ ListenStep /\ ev.detected = <<>> =>
        /\ ev.utterances = <<>>
        /\ Count(ev.signals, "utterance_timeout") = 0

\* a frame handled in ListenWakeword after a capture that timed out
C4_Witness ==
  /\ ListenStep /\ ev.detected = <<>>
  /\ wakes = 1 /\ utts = 1
  /\ since_wake = [utterances |-> 1, timeouts |-> 1]
  /\ now - utt_start_t >= cfg.max_utterance_s

\* C5: the end reason of an Utterance is vad whenever the VAD reports a ready
\* segment on the finalizing frame, also when the timeout has elapsed on that
\* frame; it is timeout only when the VAD is not ready and the timeout elapsed.
C5_VadReasonFirst ==
  \A i \in 1..Len(ev.utterances) :
     /\ ev.vad_ready => ev.utterances[i].reason = "vad"
     /\ ev.utterances[i].reason = "timeout" <=> (~ev.vad_ready /\ ev.timed_out)
     /\ ev.utterances[i].reason \in {"vad", "timeout"}

\* VAD ready and timeout elapsed on the same frame
C5_Witness ==
  /\ CaptureStep /\ ev.vad_ready /\ ev.timed_out
  /\ Len(ev.utterances) = 1
  /\ ev.utterances[1].reason = "vad"

C7_DualHysteresis ==
  [][gate'.xvf_open # gate.xvf_open =>
       /\ pollpc = "read" /\ pollpc' = "check" /\ gpoll'.ok
       /\ gate'.xvf_open =>
            /\ gpoll'.energy >= speech_energy_high
            /\ hi_run' = gcfg.open_consecutive_polls
       /\ ~gate'.xvf_open =>
            /\ gpoll'.energy <= speech_energy_low
            /\ lo_run' = gcfg.close_consecutive_polls]_vars

\* the gate has just closed on the third low reading in a row
C7_Witness ==
  /\ gpoll.ok /\ gpoll.open_before /\ ~gate.xvf_open
  /\ gcfg.close_consecutive_polls = 3 /\ lo_run = 3
  /\ gcfg.open_consecutive_polls = 2

\* C8: a successful read with energy strictly between low and high sets both
\* consecutive-poll counters to zero and leaves the hardware-derived state as
\* it was.
C8_BetweenResets ==
  (gpoll.valid /\ gpoll.ok
     /\ gpoll.energy > speech_energy_low /\ gpoll.energy < speech_energy_high) =>
     /\ gate.xvf_open_hits = 0
     /\ gate.xvf_close_hits = 0
     /\ gate.xvf_open = gpoll.open_before

\* an open gate with a close streak in progress reads a value in between
C8_Witness ==
  /\ gpoll.valid /\ gpoll.ok
  /\ gpoll.energy > speech_energy_low /\ gpoll.energy < speech_energy_high
  /\ gpoll.open_before /\ gpoll.close_hits_before > 0
  /\ gate.xvf_open /\ gate.xvf_close_hits = 0

\* C9: in hybrid mode with the control available, is_open returns the RMS
\* decision before the first successful energy read and the hardware-derived
\* state after it, never the OR of the two, and never the RMS decision again,
\* even when later reads fail.
C9_HybridPolicy ==
  (geval.valid /\ gcfg.mode = "hybrid" /\ xvf_enabled) =>
     geval.result = (IF geval.ever_read THEN geval.xvf_open
                                        ELSE geval.expected_rms)

\* a loud frame reported closed after a failed read that followed a good one
C9_Witness ==
  /\ geval.valid /\ gcfg.mode = "hybrid" /\ xvf_enabled
  /\ gcfg.rms_threshold > 0 /\ geval.rms >= gcfg.rms_threshold
  /\ geval.ever_read /\ ~geval.last_read_ok
  /\ ~geval.xvf_open /\ ~geval.result

\* C10: a gate constructed in xvf or hybrid mode without an available control
\* starts no poll thread, and is_open returns for every frame what a gate in
\* rms mode with the same threshold and hold returns.
C10_FallbackToRms ==
  (gcfg.mode \in {"xvf", "hybrid"} /\ gcfg.control # "available") =>
     /\ pollpc = "idle"
     /\ ~gate.running
     /\ geval.valid => geval.result = geval.reference

\* xvf mode, control unavailable: a quiet frame held open by the RMS hold
C10_Witness ==
  /\ gcfg.mode = "xvf" /\ gcfg.control = "unavailable"
  /\ gcfg.rms_threshold > 0
  /\ geval.valid /\ geval.rms < gcfg.rms_threshold
  /\ geval.result /\ geval.reference
  /\ since_loud = Some(1)

\* C11: under every interleaving of producer and consumer the frame queue
\* never holds more than its maximum size, no step of the producer's enqueue
\* has to wait, and a producer that found the queue full removes the oldest
\* frame still queued (none when the consumer has emptied the queue in the
\* meantime) and then always enqueues the new frame.
C11_BoundedDropOldest ==
  /\ Len(frame_q) <= QueueMaxsize
  /\ ppc = "full" => ENABLED ProducerDrop
  /\ ppc = "retry" => ENABLED ProducerRetry
  /\ aput.kind \in {"drop", "retry"} =>
       aput.removed = IF aput.emptied THEN "none" ELSE "oldest"
  /\ aput.kind = "retry" => aput.enqueued

\* C11 as stated: a producer that found the queue full always removes a
\* queued frame, the oldest one.
C11_AlwaysRemovesOldest ==
  /\ Len(frame_q) <= QueueMaxsize
  /\ aput.kind \in {"drop", "retry"} => aput.removed = "oldest"
  /\ aput.kind = "retry" => aput.enqueued

C11_Witness ==
  /\ aput.kind = "retry"
  /\ aput.removed = "oldest"
  /\ aput.enqueued
  /\ Len(frame_q) = QueueMaxsize
  /\ frame_q[Len(frame_q)] = ncaptured
  /\ frame_q[1] = ncaptured - QueueMaxsize + 1
  /\ cpc = "get"

\* C12: a stop() on a source called after an earlier call has ended, or a
\* second close() on a gate, finds nothing left to shut down: it does not
\* raise, it stops and releases no stream or process, clears no flag that was
\* still set, and leaves the object as the earlier call left it.
C12_StopIdempotent ==
  /\ astop.calls >= 2 /\ ~astop.overlapped =>
       ~astop.raised /\ ~astop.released /\ ~astop.changed
  /\ gclose.calls >= 2 => ~gclose.released /\ ~gclose.changed
  /\ astop.calls >= 1 => ~source.running /\ ~source.stream
  /\ gclose.calls >= 1 => ~gate.running

C12_Witness ==
  /\ astop.calls = 2
  /\ ~astop.overlapped
  /\ xstops = 2
  /\ cpc = "get"
  /\ source.device = "released"
  /\ gclose.calls = 2
  /\ xvf_enabled
  /\ pollpc = "check"

Last(seq) == seq[Len(seq)]

\* C13: once start() has left its frame loop and ended, whatever ended the
\* loop (here: the source was stopped, or its reader ended), the engine has
\* stopped the source, then closed the gate, then emitted idle, and idle is
\* the last signal of the run.
C13_FinallyIdleLast ==
  cpc \in {"returned", "raised"} =>
    /\ shutdown = <<"audio_stop", "gate_close", "emit_idle">>
    /\ ~gate.running
    /\ Len(emitted) >= 2
    /\ Last(emitted) = "idle"

\* C14: when the listener raises on a signal the engine catches it: the
\* step leaves the engine, the callbacks and the signals exactly as the same
\* step does when the listener does not raise, and the loop goes on.
C14_ListenerFaultCaught ==
  ev.raised > 0 =>
    /\ ev.quiet
    /\ ev.exc # "listener"
    /\ ev.kind \in {"start", "frame"} /\ ev.exc = "none" => pc = "running"

C14_Witness ==
  /\ ev.raised = 2
  /\ ev.kind = "frame"
  /\ ev.signals = <<"wake_detected", "capturing_utterance">>
  /\ state = "CAPTURE_UTTERANCE"
  /\ pc = "running"

\* C15: when on_wake or on_utterance_ended raises, the engine completes the
\* transition (state changed, both signals emitted) and the frame loop
\* keeps running.
C15_CallbackFaultRecovered ==
  ev.kind = "frame" /\ (ev.on_wake > 0 \/ ev.utterances # <<>>) =>
    /\ pc = "running"
    /\ ev.on_wake > 0 =>
         state = "CAPTURE_UTTERANCE"
         /\ ev.signals = <<"wake_detected", "capturing_utterance">>
    /\ ev.utterances # <<>> =>
         state = "LISTEN_WAKEWORD" /\ Len(ev.signals) = 2
         /\ Last(ev.signals) = "idle"

\* C17: the signals emitted by a run of start() that has ended are
\*   idle (wake_detected capturing_utterance (utterance_complete |
\*   utterance_timeout) idle)* [wake_detected capturing_utterance] idle
\* (here for runs over silent frames: an idle, no episode, a final idle).
C17_SignalForm ==
  cpc \in {"returned", "raised"} => SignalForm("none", emitted) = "final"

\* C18: while the frame loop runs, after every frame the engine is in
\* CAPTURE_UTTERANCE exactly when one more WakeEvent than Utterances has
\* been delivered and in LISTEN_WAKEWORD exactly when as many; a frame
\* delivers at most one of the two, so deliveries alternate starting with
\* on_wake.
C18_WakeUtteranceBalance ==
  /\ pc = "running" =>
       /\ state = "CAPTURE_UTTERANCE" <=> wakes = utts + 1
       /\ state = "LISTEN_WAKEWORD" <=> wakes = utts
  /\ ev.on_wake + Len(ev.utterances) <= 1
  /\ wakes \in {utts, utts + 1}

C18_Witness ==
  /\ pc = "running"
  /\ state = "LISTEN_WAKEWORD"
  /\ wakes = 2
  /\ utts = 2
  /\ ev.utterances # <<>>

\* C16: a device failure during capture surfaces as an error raised to the
\* caller of start(): when the device failed and nobody stopped the source,
\* start() does not return normally.
C16_DeviceFailureRaises ==
  afault /\ xstops = 0 => cpc # "returned"

\* a step of the poll thread in which read_speech_energy failed
FailedPollStep == pollpc = "read" /\ pollpc' # "read" /\ ~gpoll'.ok

FailedPollKeeps ==
  /\ gate' = gate
  /\ pollpc' = "check"
  /\ <<geval, ngframes, ever_read, hi_run, lo_run>>' =
       <<geval, ngframes, ever_read, hi_run, lo_run>>

\* C19: a hardware read that fails assigns nothing in the gate (energy,
\* counters, open / closed state, what the consumer sees), the poll thread
\* goes back to its loop test, and the thread leaves its loop only after
\* close() has cleared the running flag.
C19_PollFailureKeepsState ==
  /\ [][FailedPollStep => FailedPollKeeps]_vars
  /\ [](pollpc = "done" => ~gate.running)

C19_Witness ==
  /\ gpoll.valid
  /\ ~gpoll.ok
  /\ pollpc = "read"
  /\ gate.running
  /\ gate.xvf_open_hits = 1
  /\ gate.last_energy # None
  /\ ~gate.xvf_open
  /\ geval.valid

\* a step of frames()
FramesStep == cpc \in {"test", "get"} /\ cpc' # cpc

FramesWaits ==
  /\ cpc' = "finally" => cpc = "test" /\ ~source.running
  /\ cpc = "get" /\ frame_q = <<>> => cpc' = "test" /\ frame_q' = <<>>

\* C20: frames() leaves its loop only when the running flag is clear (a
\* get that times out on an empty queue yields nothing and goes back to the
\* loop test), and once another thread has called stop() the consumer's loop
\* ends (there is no loop to end when the source never opened).
C20_FramesWaitsUntilStopped ==
  /\ [][FramesStep => FramesWaits]_vars
  /\ (xstops > 0) ~> (cpc \in {"finally", "closing", "returned", "raised",
                               "unopened"})

C20_Witness ==
  /\ cpc = "finally"
  /\ xstops = 1
  /\ acfg.backend = "callback"
  /\ afault
  /\ frame_q = <<>>
  /\ ncaptured = 0

Range(seq) == {seq[i] : i \in 1..Len(seq)}

\* C21: under every interleaving of producer and consumer the frames yielded
\* so far are captured frames in capture order, none of them twice, and a
\* captured frame that was not yielded either was removed by the producer on
\* overflow or is still on its way (in the queue, or in the producer's hand
\* between the failed insert and the retry).
C21_YieldedInCaptureOrder ==
  /\ \A i \in 1..(Len(yielded) - 1) : yielded[i] < yielded[i + 1]
  /\ Range(yielded) \subseteq 1..ncaptured
  /\ dropped \cap Range(yielded) = {}
  /\ (1..ncaptured) \ Range(yielded) =
       dropped \cup Range(frame_q) \cup (IF pnew # 0 THEN {pnew} ELSE {})

C21_Witness ==
  /\ dropped # {}
  /\ ppc = "wait"
  /\ \E i \in 1..(Len(yielded) - 1) :
       \E d \in dropped : yielded[i] < d /\ d < yielded[i + 1]

\* C22: in every state the metrics of the gate report a numeric energy
\* exactly when the mode is not rms and a hardware read has succeeded (the
\* value then is the last one read); otherwise the energy is reported absent.
C22_EnergyOnlyAfterRead ==
  LET e == Metrics(gcfg.mode, gate).speech_energy
  IN /\ e.numeric <=> (gcfg.mode # "rms" /\ ever_read)
     /\ e.numeric /\ gpoll.ok => e.value = gpoll.energy

C22_Witness ==
  /\ Metrics(gcfg.mode, gate).speech_energy.numeric
  /\ gcfg.mode = "hybrid"
  /\ gpoll.valid /\ ~gpoll.ok
  /\ ~gate.running
  /\ geval.valid

\* close() never sets the running flag again
ClosedStaysClosed == ~gate.running => ~gate'.running

\* a poll thread that has left its loop reads nothing more
DoneStaysDone == pollpc = "done" => pollpc' = "done" /\ gpoll' = gpoll

\* C23: once close() has cleared the running flag the poll thread attempts
\* at most one more hardware read (the one it was in), then finds the flag
\* clear at its loop test and leaves the loop; it eventually does so, reads
\* nothing afterwards, and nothing sets the flag again.
C23_PollThreadTerminates ==
  /\ [](gpoll.late <= 1)
  /\ [](gpoll.late = 1 /\ pollpc = "check" => ENABLED PollCheck /\ ~gate.running)
  /\ [][ClosedStaysClosed]_vars
  /\ [][DoneStaysDone]_vars
  /\ (xvf_enabled /\ ~gate.running) ~> (pollpc = "done")

C23_Witness ==
  /\ pollpc = "done"
  /\ gpoll.late = 1
  /\ gpoll.ok
  /\ gate.xvf_open
  /\ ~gate.running

\* ---------------------------------------------------------------- C24
\* C24: a threshold pair with low above high, or a duration or count that
\* is not positive (max_utterance_s, the poll interval, the open and close
\* counts), makes the construction of the gate, of the engine and of the
\* loaded configuration fail with an error: no object is built from it.
InvalidGateSettings ==
  \/ settings.speech_energy[2] > settings.speech_energy[1]
  \/ settings.poll_interval_ms <= 0
  \/ settings.open_consecutive_polls <= 0
  \/ settings.close_consecutive_polls <= 0

InvalidEngineSettings == settings.max_utterance_s <= 0

C24_ConfigFaultsFailFast ==
  /\ (built.config # None /\ (InvalidGateSettings \/ InvalidEngineSettings))
       => built.config[1].raised # None
  /\ (built.gate # None /\ InvalidGateSettings) => built.gate[1].raised # None
  /\ (built.engine # None /\ InvalidEngineSettings)
       => built.engine[1].raised # None

\* ---------------------------------------------------------------- C25
\* C25: for every frame handled in LISTEN_WAKEWORD while the gate reports
\* closed, the wake detector's stream is cleared before the next frame.
C25_ClosedFrameClearsDetector ==
  (ev.kind = "frame" /\ ev.state0 = "LISTEN_WAKEWORD" /\ ev.gate = "closed")
    => ev.wake_resets > 0

\* ---------------------------------------------------------------- C26
\* C26: on a closed-to-open transition of the gate (the first frame ever
\* evaluated included, if the gate is open on it) with pre-roll enabled, the
\* buffered frames are passed to the wake detector oldest first, the replay
\* stops at the first frame that triggers a detection, and the frame that
\* caused the transition is not passed to the detector again after it.
C26_ReplayInOrderOnce ==
  (ev.kind = "frame" /\ ev.state0 = "LISTEN_WAKEWORD" /\ ev.gate = "open"
     /\ ev.just_opened /\ cfg.wake_preroll_enabled)
    => /\ ev.replay
       /\ Len(ev.process) <= Len(wake_preroll_frames)
       /\ ev.process = SubSeq(Ids(wake_preroll_frames), 1, Len(ev.process))
       /\ IF ev.detected = <<>>
            THEN Len(ev.process) = Len(wake_preroll_frames)
            ELSE ev.detected = <<Last(ev.process)>>
       /\ Count(ev.process, ev.frame) <= 1

\* two frames buffered, the older one triggers: the frame of the transition
\* is not decoded
C26_Witness ==
  /\ ev.kind = "frame" /\ ev.replay
  /\ Len(wake_preroll_frames) = 2
  /\ ev.process = <<wake_preroll_frames[1].id>>
  /\ ev.detected = ev.process
  /\ wake_preroll_frames[2].id = ev.frame

\* ---------------------------------------------------------------- C27
\* C27: on a closed-to-open transition with pre-roll enabled whose replay
\* triggers no detection, the frame that caused the transition has been
\* passed to the wake detector exactly once when the engine moves on to the
\* next frame, whatever the pre-roll duration and the length of the frame.
C27_TransitionFrameDecodedOnce ==
  (ev.kind = "frame" /\ ev.state0 = "LISTEN_WAKEWORD" /\ ev.gate = "open"
     /\ ev.just_opened /\ cfg.wake_preroll_enabled /\ ev.detected = <<>>)
    => Count(ev.process, ev.frame) = 1

\* ---------------------------------------------------------------- C28
\* C28: over a whole run of the engine the frames passed to the wake
\* detector form a strictly increasing sequence in arrival order: no frame
\* is passed twice and none after a frame that arrived later, across gate
\* transitions and capture episodes.
DecodedInOrder ==
  nframes' # nframes =>
    \A i \in 1..Len(ev'.process) :
      ev'.process[i] > (IF i = 1 THEN decoded ELSE ev'.process[i - 1])

C28_DecodedStrictlyIncreasing == [][DecodedInOrder]_vars

\* ---------------------------------------------------------------- C29
\* C29: whenever the engine is in LISTEN_WAKEWORD the pre-roll buffer holds
\* a contiguous run of received frames: no received frame is missing between
\* its oldest and its newest element, so that a replay feeds the detector no
\* frame received before an earlier capture episode.
Contiguous(ids) == \A i \in 1..(Len(ids) - 1) : ids[i + 1] = ids[i] + 1

C29_PrerollContiguous ==
  /\ state = "LISTEN_WAKEWORD" => Contiguous(Ids(wake_preroll_frames))
  /\ ev.replay => Contiguous(ev.process)

\* ---------------------------------------------------------------- C30
\* C30: the state signal emitted at finalization agrees with the end reason
\* of the utterance: utterance_timeout exactly when the reason is timeout,
\* utterance_complete exactly when it is the VAD segment, whatever the
\* combination of VAD-ready and timed-out on the finalizing frame.
C30_SignalAgreesWithReason ==
  (ev.kind = "frame" /\ ev.state0 = "CAPTURE_UTTERANCE"
     /\ ev.utterances # <<>>)
    => /\ ("utterance_timeout" \in Range(ev.signals)
             <=> ev.utterances[1].reason = "timeout")
       /\ ("utterance_complete" \in Range(ev.signals)
             <=> ev.utterances[1].reason = "vad")

\* ---------------------------------------------------------------- C31
\* C31: the wake detector's process is called only while the engine is in
\* LISTEN_WAKEWORD and the VAD's accept_audio only while it is in
\* CAPTURE_UTTERANCE; in CAPTURE_UTTERANCE every dequeued frame is accepted
\* by the VAD and appended to the utterance buffer, and the gate is not asked.
C31_FanOutByState ==
  ev.kind = "frame" =>
    /\ ev.state0 = "LISTEN_WAKEWORD" =>
         /\ ev.accept = <<>> /\ ev.appended = <<>>
         \* a detection moves the engine to CAPTURE_UTTERANCE: it is the last call
         /\ ev.detected # <<>> => ev.detected = <<Last(ev.process)>>
    /\ ev.state0 = "CAPTURE_UTTERANCE" =>
         /\ ev.process = <<>>
         /\ ev.accept = <<ev.frame>>
         /\ ev.appended = <<ev.frame>>
         /\ ev.gate = "na"
         /\ ev.utterances = <<>> =>
              utt_buf # <<>> /\ Last(utt_buf).id = ev.frame

\* a frame of a capture episode that does not end it
C31_Witness ==
  /\ ev.kind = "frame" /\ ev.state0 = "CAPTURE_UTTERANCE"
  /\ ev.accept = <<ev.frame>>
  /\ ev.utterances = <<>>
  /\ Len(utt_buf) >= 3
  /\ state = "CAPTURE_UTTERANCE"

\* ---------------------------------------------------------------- C32
\* C32: every wake event delivered is followed by exactly one utterance for
\* it: never more utterances than wake events, and once start() has left
\* its frame loop (the source was stopped, possibly during a capture) every
\* wake event has had its utterance.
C32_EveryWakeGetsUtterance ==
  /\ utts <= wakes
  /\ pc = "stopped" => utts = wakes

\* ---------------------------------------------------------------- C33
\* C33: on every path by which start() returns or raises, a failure of the
\* source to open the device included, the gate's close() has been called
\* by then and no poll thread is left running.
C33_GateClosedOnEveryExit ==
  cpc \in {"returned", "raised", "unopened"} =>
    "gate_close" \in Range(shutdown) /\ ~gate.running

\* ---------------------------------------------------------------- C34
\* C34: when another thread calls stop() on the source while the engine
\* runs and the engine's shutdown calls stop() again, then under every
\* interleaving neither call raises, the stream (or the recording process)
\* is stopped and released by one call only, and the engine goes on to close
\* the gate and to emit the final idle.
C34_ConcurrentStopSafe ==
  /\ ~astop.raised
  /\ ~(stopcall["engine"].released /\ stopcall["other"].released)
  /\ (xstops > 0 /\ cpc \in {"returned", "raised"}) =>
       /\ shutdown = <<"audio_stop", "gate_close", "emit_idle">>
       /\ Last(emitted) = "idle"

\* ---------------------------------------------------------------- C35
\* C35: every read and write of the gate's cross-thread fields (xvf_open,
\* both hit counters, last_energy, last_gate_open) by the poll thread or the
\* consumer happens while that thread holds self._lock; the lock is not held
\* during the hardware read or the sleep, nor by a thread that is about to
\* acquire it, and whoever holds it can always take its next step, so no
\* interleaving deadlocks.
C35_GateMutexDiscipline ==
  /\ \A t \in touched : t.field \in SharedFields => t.held
  /\ ppos \in {"idle", "check", "read", "acquire", "sleep", "done"} =>
       lock # "poll"
  /\ cpos \in {"idle", "acquire_read", "acquire_write", "acquire_metrics"} =>
       lock # "consumer"
  /\ lock = "poll" => ENABLED (LockPollUpdate \/ LockPollRelease)
  /\ lock = "consumer" =>
       ENABLED (LockIsOpenRead \/ LockIsOpenWrite \/ LockMetricsRead
                  \/ LockConsumerRelease)

\* the poll thread has just updated the counters under the lock while the
\* consumer, between the two blocks of is_open, waits for it
C35_Witness ==
  /\ ppos = "release"
  /\ lock = "poll"
  /\ cpos = "acquire_write"
  /\ \E t \in touched : t.thread = "poll" /\ t.field = "xvf_open_hits" /\ t.held
  /\ gate.xvf_open

\* ---------------------------------------------------------------- C36
\* C36: at finalization get_samples is asked to flush exactly when the end
\* reason is the timeout; a finalization on a ready VAD segment extracts
\* the audio without a forced flush.
C36_FlushOnlyOnTimeout ==
  (ev.kind = "frame" /\ ev.state0 = "CAPTURE_UTTERANCE"
     /\ ev.utterances # <<>>)
    => (ev.flush = Some(TRUE)) = (ev.utterances[1].reason = "timeout")

\* ---------------------------------------------------------------- C37
\* C37: the utterance buffer starts, at the detection, as the frame that
\* triggered it, and grows by every frame dequeued in CAPTURE_UTTERANCE, in
\* order; when the VAD yields nothing at finalization the utterance is that
\* buffer, the finalizing frame included, so it is never empty; after the
\* emission the buffer is empty.
FallbackAudio ==
  (nframes' = nframes + 1 /\ ev'.kind = "frame") =>
    /\ (ev'.state0 = "LISTEN_WAKEWORD" /\ ev'.on_wake > 0) =>
         Ids(utt_buf') = ev'.detected
    /\ (ev'.state0 = "CAPTURE_UTTERANCE" /\ ev'.utterances = <<>>) =>
         Ids(utt_buf') = Ids(utt_buf) \o <<ev'.frame>>
    /\ (ev'.state0 = "CAPTURE_UTTERANCE" /\ ev'.utterances # <<>>) =>
         LET audio == ev'.utterances[1].audio
         IN /\ audio.source \in {"vad", "utt_buf"}
            /\ audio.source = "vad" => audio.chunks > 0
            /\ audio.source = "utt_buf" =>
                 /\ audio.frames = Ids(utt_buf) \o <<ev'.frame>>
                 /\ Len(audio.frames) >= 2
            /\ utt_buf' = <<>>

C37_FallbackIsWholeEpisode == [][FallbackAudio]_vars

\* a timeout on which the VAD had nothing: wake frame and two capture frames
C37_Witness ==
  /\ ev.kind = "frame" /\ ev.state0 = "CAPTURE_UTTERANCE"
  /\ ev.utterances # <<>>
  /\ ev.utterances[1].reason = "timeout"
  /\ ev.utterances[1].audio.source = "utt_buf"
  /\ Len(ev.utterances[1].audio.frames) = 3
  /\ ev.utterances[1].audio.frames[3] = ev.frame
  /\ utt_buf = <<>>

\* ---------------------------------------------------------------- C38
\* C38: whenever the producer removed a queued frame, or gave up the new
\* one, because the queue was full, it recorded a warning for that overflow,
\* with the callback backend and with the arecord backend alike.
C38_DropIsWarned ==
  (aput.kind \in {"full", "drop", "retry"}) => aput.warned

\* ---------------------------------------------------------------- C39
\* C39: for every pair of thresholds that configuration validation accepts,
\* the gate constructed with the pair compares the readings against exactly
\* that pair.
C39_ThresholdsAsConfigured ==
  (/\ built.config # None /\ built.config[1].raised = None
   /\ built.gate # None /\ built.gate[1].raised = None)
    => LET config == built.config[1].value[1]
           g == built.gate[1].value[1]
       IN /\ g.speech_energy_high = config.speech_energy[1]
          /\ g.speech_energy_low = config.speech_energy[2]

\* ---------------------------------------------------------------- C40
\* C40: the engine built by an entry point from a loaded configuration runs
\* with the configured pre-roll: when speech.wake_preroll_enabled is false
\* it never holds a pre-roll frame and never replays, and when it is true
\* the buffer stays within speech.wake_preroll_ms.
C40_PrerollAsConfigured ==
  LET config == built.config[1].value[1]
  IN /\ ~config.wake_preroll_enabled =>
          wake_preroll_frames = <<>> /\ ~ev.replay
     /\ config.wake_preroll_enabled =>
          wake_preroll_samples * 1000 <= config.wake_preroll_ms * cfg.sample_rate

====
